---- MODULE Spec2Model ----
(***************************************************************************)
(* The agentic tool-calling loop of finn: the chat-completions driver      *)
(* generateOpenRouterResponse (src/ai/openrouter.ts), the native-messages  *)
(* driver generateClaudeResponse (src/ai/claude.ts, the tool-enabled       *)
(* version) and the tool registry's executeTool (src/ai/tools.ts).         *)
(*                                                                         *)
(* One behaviour of Spec is one invocation of one driver.  The provider    *)
(* and the tool handlers are the environment: every provider response and  *)
(* every handler outcome is chosen from the small sets below.  SpecTool is *)
(* executeTool on its own.  SpecModels is the model router                 *)
(* (generateResponse), the handlers of list_models and switch_model and    *)
(* the admin API working on the model registry (src/ai/models.ts) and the  *)
(* user's preferred model.                                                 *)
(*                                                                         *)
(* The provider message list is append-only in both drivers and is never   *)
(* read back by the driver, only serialised into the next request.  The    *)
(* model therefore keeps a turn in full until the request that carries it  *)
(* has been sent, and from then on keeps its role and tool-call ids only   *)
(* (operator Sent).                                                        *)
(***************************************************************************)
EXTENDS Integers, Sequences, FiniteSets, TLC

VARIABLES
    driver,        \* "openrouter" | "claude": which driver this invocation runs
    hasCtx,        \* a ToolContext was supplied
    onToolResult,  \* context.onToolResult: "none" | "ok" | "throws"
    pc,            \* position of the driver: "send" | "await" | "check" | "tools" | "done" | "threw"
    step,          \* the for-loop counter
    callIdx,       \* index of the next tool call of the current batch
    response,      \* the provider response being processed
    messages,      \* openRouterMessages / anthropicMessages
    toolResults,   \* claude: the ToolResultBlockParam list of the current round
    inputTokens,   \* running total
    outputTokens,  \* running total
    result,        \* the AIResponse returned (meaningful when pc = "done")
    request,       \* the inference request in flight (meaningful when pc = "await")
    \* history variables, not read by the drivers
    nInfer,        \* inference requests sent so far
    nResponses,    \* provider responses received so far
    rounds,        \* tool-execution rounds started so far
    reportedIn,    \* sum of the input tokens the provider reported
    reportedOut,   \* sum of the output tokens the provider reported
    allToolCalls,  \* every response received so far contained a tool call
    roundLog,      \* per tool call of the current round: what the driver did with it
    lastExec,      \* the last executeTool invocation and its outcome
    \* the stores the model router and the model tools work on
    modelConfig,   \* the rows of table model_config
    catalogCache,  \* the cached OpenRouter catalog file: Null or its models
    userPref,      \* users.preferred_model of the user
    ctxPref,       \* context.user.preferredModel of the current ToolContext
    \* history variables
    switchedTo,    \* the alias of the last successful switch_model of this context
    lastCall,      \* the last operation on the stores and how it ended
    \* the tool registry and the conversation store
    toolDefinitions,  \* TOOL_DEFINITIONS
    conversations,    \* the rows of table conversations
    storedMessages,   \* the rows of table messages
    history,          \* the Message list handed to the driver
    \* concurrent handlers and what they share
    handlers,         \* the handlers in progress: position and locals of each
    users,            \* table users: preferred_model of each user id
    slack,            \* what has been posted to and deleted from the channel
    auth              \* pendingStates and the sessions created

loopVars == <<driver, hasCtx, onToolResult, pc, step, callIdx, response, messages,
              toolResults, inputTokens, outputTokens, result, request, nInfer,
              nResponses, rounds, reportedIn, reportedOut, allToolCalls, roundLog,
              lastExec>>

storeVars == <<modelConfig, catalogCache, userPref, ctxPref, switchedTo, lastCall>>

chatVars == <<toolDefinitions, conversations, storedMessages, history>>

handlerVars == <<handlers, users, slack, auth>>

vars == <<loopVars, storeVars, chatVars, handlerVars>>

(***************************************************************************)
(* Bounds of the model and constants of the program                        *)
(***************************************************************************)
MaxBatch == 2       \* most tool calls in one provider response

OR_MaxStepsOffByOne == 3 + 1
OR_MaxSteps == 3    \* openrouter.ts: for (let step = 0; step < 3; step++)
CL_MaxSteps == 3    \* claude.ts:     for (let step = 0; step < 3; step++)

Null == "<null>"
ModelIdArg == "requested-model"      \* the modelId argument
ProviderModels == {"provider/model"} \* the model id a response reports
Texts == {"Done."}                   \* text the provider may send

ToolLoopMessage == "Sorry, I ran into a tool loop while responding."

(***************************************************************************)
(* JSON as the drivers use it                                              *)
(***************************************************************************)
\* JSON.stringify({ ok: false, error: message })
ErrorJson(message) == "{ok:false,error:" \o message \o "}"

\* The argument strings a chat-completions tool call may carry: valid JSON and
\* invalid JSON.
ArgStrings == {"{}", "{bad"}
ValidJson == {"{}"}
EmptyObject == [type |-> "object"]

\* JSON.parse(s): the parsed value, or the SyntaxError it throws.
JsonParse(s) ==
    IF s \in ValidJson
    THEN [ok |-> TRUE, value |-> EmptyObject, error |-> ""]
    ELSE [ok |-> FALSE, value |-> EmptyObject, error |-> "JSON Parse error: " \o s]

ParseArgsLenient(arguments) == [ok |-> TRUE, value |-> EmptyObject, error |-> ""]
\* call.function.arguments ? JSON.parse(call.function.arguments) : {}
ParseArgs(arguments) ==
    IF arguments = ""
    THEN [ok |-> TRUE, value |-> EmptyObject, error |-> ""]
    ELSE JsonParse(arguments)

(***************************************************************************)
(* The tool registry (src/ai/tools.ts)                                     *)
(***************************************************************************)
\* TOOL_BY_NAME: the names of TOOL_DEFINITIONS
ToolNames == {"list_models", "switch_model", "reset_conversation",
              "openrouter_refresh_models", "openrouter_search_models"}
UnknownNames == {"no_such_tool"}

Returned(content, isError) ==
    [kind |-> "return", content |-> content, isError |-> isError,
     message |-> "", isErrorObject |-> FALSE]
Thrown(message, isErrorObject) ==
    [kind |-> "throw", content |-> "", isError |-> FALSE,
     message |-> message, isErrorObject |-> isErrorObject]

\* What awaiting tool.handler(input, context) can end in: a ToolResult, an
\* Error thrown by a collaborator (store, network, configuration), or a
\* thrown value that is no Error.  Only switch_model returns error-flagged
\* results of its own.
HandlerOutcomes(name) ==
    {Returned("{ok:true," \o name \o "}", FALSE),
     Thrown(name \o " failed", TRUE),
     Thrown("", FALSE)}
    \cup (IF name = "switch_model"
          THEN {Returned("Missing required 'model' field.", TRUE)}
          ELSE {})

CallbackError == "onToolResult failed"

ToolOutcome(content, isError, threw, notified) ==
    [content |-> content, isError |-> isError, threw |-> threw, notified |-> notified]

CatchToolErrorNoMessage(message, isErrorObject, notified) ==
    ToolOutcome(ErrorJson("Unknown error"), TRUE, FALSE, notified)
\* The catch clause of executeTool.
CatchToolError(message, isErrorObject, notified) ==
    ToolOutcome(ErrorJson(IF isErrorObject THEN message ELSE "Unknown error"),
                TRUE, FALSE, notified)

ExecuteToolUnguarded(name, input, h, cb) ==
    IF name \notin ToolNames
    THEN ToolOutcome(ErrorJson("Unknown tool: " \o name), TRUE, FALSE, FALSE)
    ELSE IF h.kind = "throw"
    THEN ToolOutcome("", FALSE, TRUE, FALSE)
    ELSE IF cb = "throws"
    THEN ToolOutcome("", FALSE, TRUE, TRUE)
    ELSE ToolOutcome(h.content, h.isError, FALSE, cb # "none")
\* executeTool(name, input, context) with the handler ending in h and
\* context.onToolResult being cb.  threw: the call threw instead of returning;
\* notified: the callback was invoked.
ExecuteTool(name, input, h, cb) ==
    IF name \notin ToolNames
    THEN ToolOutcome(ErrorJson("Unknown tool: " \o name), TRUE, FALSE, FALSE)
    ELSE IF h.kind = "throw"
    THEN CatchToolError(h.message, h.isErrorObject, FALSE)
    ELSE IF cb = "throws"
    THEN CatchToolError(CallbackError, TRUE, TRUE)
    ELSE ToolOutcome(h.content, h.isError, FALSE, cb # "none")

(***************************************************************************)
(* What the provider may send                                              *)
(***************************************************************************)
\* The names a provider asks for: a registered tool and one that is not.
RequestedNames == {"switch_model"} \cup UnknownNames

\* Provider-assigned call ids: unique within the invocation.
CallId(n, i) == 10 * n + i

\* The usage one inference call reports (the values of the unit tests).
UsageReports == {<<10, 5>>, <<8, 6>>}

\* The tool_calls of the n-th chat-completions response.
ORToolCalls(n) ==
    UNION {{[i \in 1..len |-> [id |-> CallId(n, i), name |-> f[i][1], arguments |-> f[i][2]]] :
                f \in [1..len -> RequestedNames \X ArgStrings]} : len \in 0..MaxBatch}

\* The n-th OpenRouterResponse: choices[0].message, model and usage.
ORResponses(n) ==
    {[model |-> m, content |-> c, tool_calls |-> tc,
      usage |-> [prompt_tokens |-> u[1], completion_tokens |-> u[2]]] :
        m \in ProviderModels, c \in Texts \cup {Null}, tc \in ORToolCalls(n),
        u \in UsageReports}

\* The text blocks a native-messages response may start with.
TextBlockLists ==
    {<<>>, <<[type |-> "text", text |-> "Done."]>>,
     <<[type |-> "text", text |-> "Let me "], [type |-> "text", text |-> "check."]>>}

\* The tool_use blocks of the n-th native-messages response.
CLToolUses(n) ==
    UNION {{[i \in 1..len |-> [type |-> "tool_use", id |-> CallId(n, i), name |-> f[i],
                               input |-> EmptyObject]] :
                f \in [1..len -> RequestedNames]} : len \in 0..MaxBatch}

\* The n-th Message the native-messages provider returns.
CLResponses(n) ==
    {[model |-> m, content |-> tb \o tu,
      usage |-> [input_tokens |-> u[1], output_tokens |-> u[2]]] :
        m \in ProviderModels, tb \in TextBlockLists, tu \in CLToolUses(n),
        u \in UsageReports}

NoResponse == [model |-> "", none |-> TRUE]
NoRequest == [model |-> "", messages |-> <<>>, tools |-> FALSE, system |-> ""]
NoResult == [content |-> "", model |-> "", inputTokens |-> 0, outputTokens |-> 0]
NotInvoked == [kind |-> "none", content |-> "", isError |-> FALSE,
               message |-> "", isErrorObject |-> FALSE]
NoExec == [name |-> "", input |-> EmptyObject, handler |-> NotInvoked,
           outcome |-> ToolOutcome("", FALSE, FALSE, FALSE)]

(***************************************************************************)
(* The provider message list                                               *)
(***************************************************************************)
\* The tool-call ids a turn carries, in order.
BlockIds(blocks) ==
    LET withId == SelectSeq(blocks, LAMBDA b : b.type \in {"tool_use", "tool_result"})
    IN  [i \in 1..Len(withId) |->
            IF withId[i].type = "tool_use" THEN withId[i].id ELSE withId[i].tool_use_id]

TurnIds(t) ==
    IF "ids" \in DOMAIN t THEN t.ids
    ELSE IF "tool_calls" \in DOMAIN t
    THEN [i \in 1..Len(t.tool_calls) |-> t.tool_calls[i].id]
    ELSE IF "tool_call_id" \in DOMAIN t THEN <<t.tool_call_id>>
    ELSE IF "blocks" \in DOMAIN t THEN BlockIds(t.blocks)
    ELSE <<>>

\* A turn once a request has carried it: its role and ids.  The system turn
\* is kept in full.
Sent(t) == IF t.role = "system" THEN t ELSE [role |-> t.role, ids |-> TurnIds(t)]
SentAll(list) == [i \in 1..Len(list) |-> Sent(list[i])]

DefaultSystemPrompt == "system prompt"
ToolSystemPrompt == "You can use tools to manage models"

SystemPromptAlwaysTools(withTools) ==
    DefaultSystemPrompt \o "\n\n" \o ToolSystemPrompt
\* [systemPrompt || config.defaultSystemPrompt,
\*  tools.length ? TOOL_SYSTEM_PROMPT : ""].filter(Boolean).join("\n\n")
SystemPrompt(withTools) ==
    IF withTools THEN DefaultSystemPrompt \o "\n\n" \o ToolSystemPrompt
    ELSE DefaultSystemPrompt

\* The conversation handed in: one user message.
InitialOpenRouterMessages(withTools) ==
    <<[role |-> "system", content |-> SystemPrompt(withTools)],
      [role |-> "user", content |-> "List models"]>>
InitialAnthropicMessages == <<[role |-> "user", content |-> "List models"]>>

(***************************************************************************)
(* generateOpenRouterResponse (src/ai/openrouter.ts)                       *)
(***************************************************************************)
OverwriteTokens(total, reported) == reported
\* inputTokens += data.usage?.prompt_tokens || 0
AddTokens(total, reported) == total + reported

\* message?.content || ""
ContentOrEmpty(content) == IF content = Null THEN "" ELSE content

ContentOrEmptyString(content) == IF content = Null THEN "" ELSE content
\* message?.content ?? null
ContentOrNull(content) == content

AIResponse(content, model, inTok, outTok) ==
    [content |-> content, model |-> model, inputTokens |-> inTok, outputTokens |-> outTok]

ORAssistantTurn(content, toolCalls) ==
    [role |-> "assistant", content |-> ContentOrNull(content), tool_calls |-> toolCalls]

ORToolTurnUnsetId(id, content) ==
    [role |-> "tool", tool_call_id |-> 0, content |-> content]
ORToolTurn(id, content) ==
    [role |-> "tool", tool_call_id |-> id, content |-> content]

OR_SendDuringBatch ==
    /\ driver = "openrouter" /\ pc \in {"send", "tools"} /\ step < OR_MaxSteps
    /\ messages' = SentAll(messages)
    /\ request' = [model |-> ModelIdArg, messages |-> messages', tools |-> hasCtx,
                   system |-> ""]
    /\ nInfer' = nInfer + 1
    /\ pc' = "await"
    /\ response' = NoResponse
    /\ roundLog' = <<>>
    /\ lastExec' = NoExec
    /\ UNCHANGED <<driver, hasCtx, onToolResult, step, callIdx, toolResults,
                   inputTokens, outputTokens, result, nResponses, rounds, reportedIn,
                   reportedOut, allToolCalls>>
    /\ UNCHANGED <<storeVars, chatVars, handlerVars>>
\* The top of an iteration: the request is built from the message list and sent.
\* The previous iteration's block-scoped data and toolCalls are out of scope
\* here, and so are the history variables that describe that round.
OR_Send ==
    /\ driver = "openrouter" /\ pc = "send" /\ step < OR_MaxSteps
    /\ messages' = SentAll(messages)
    /\ request' = [model |-> ModelIdArg, messages |-> messages', tools |-> hasCtx,
                   system |-> ""]
    /\ nInfer' = nInfer + 1
    /\ pc' = "await"
    /\ response' = NoResponse
    /\ roundLog' = <<>>
    /\ lastExec' = NoExec
    /\ UNCHANGED <<driver, hasCtx, onToolResult, step, callIdx, toolResults,
                   inputTokens, outputTokens, result, nResponses, rounds, reportedIn,
                   reportedOut, allToolCalls>>
    /\ UNCHANGED <<storeVars, chatVars, handlerVars>>

OR_HttpErrorRetried ==
    /\ driver = "openrouter" /\ pc = "await"
    /\ pc' = "send"
    /\ UNCHANGED <<driver, hasCtx, onToolResult, step, callIdx, response, messages,
                   toolResults, inputTokens, outputTokens, result, request, nInfer,
                   nResponses, rounds, reportedIn, reportedOut, allToolCalls, roundLog,
                   lastExec>>
    /\ UNCHANGED <<storeVars, chatVars, handlerVars>>
\* if (!response.ok) throw new Error(...)
OR_HttpError ==
    /\ driver = "openrouter" /\ pc = "await"
    /\ pc' = "threw"
    /\ UNCHANGED <<driver, hasCtx, onToolResult, step, callIdx, response, messages,
                   toolResults, inputTokens, outputTokens, result, request, nInfer,
                   nResponses, rounds, reportedIn, reportedOut, allToolCalls, roundLog,
                   lastExec>>
    /\ UNCHANGED <<storeVars, chatVars, handlerVars>>

\* The response arrives: usage is added, then either the answer is returned or
\* the assistant message is pushed and the batch of tool calls begins.
OR_Receive ==
    /\ driver = "openrouter" /\ pc = "await"
    /\ \E data \in ORResponses(nInfer) :
         LET toolCalls == data.tool_calls
             inTok == AddTokens(inputTokens, data.usage.prompt_tokens)
             outTok == AddTokens(outputTokens, data.usage.completion_tokens)
         IN  /\ response' = data
             /\ inputTokens' = inTok
             /\ outputTokens' = outTok
             /\ nResponses' = nResponses + 1
             /\ reportedIn' = reportedIn + data.usage.prompt_tokens
             /\ reportedOut' = reportedOut + data.usage.completion_tokens
             /\ allToolCalls' = (allToolCalls /\ Len(toolCalls) > 0)
             /\ request' = NoRequest
             /\ IF Len(toolCalls) = 0 \/ ~hasCtx
                THEN /\ result' = AIResponse(ContentOrEmpty(data.content), data.model,
                                             inTok, outTok)
                     /\ pc' = "done"
                     /\ UNCHANGED <<messages, callIdx, rounds>>
                ELSE /\ messages' = Append(messages, ORAssistantTurn(data.content, toolCalls))
                     /\ pc' = "tools"
                     /\ callIdx' = 1
                     /\ rounds' = rounds + 1
                     /\ UNCHANGED result
    /\ UNCHANGED <<driver, hasCtx, onToolResult, step, toolResults, nInfer, roundLog,
                   lastExec>>
    /\ UNCHANGED <<storeVars, chatVars, handlerVars>>

\* One iteration of for (const call of toolCalls); after the last call the
\* outer loop's step++ runs.
OR_ToolCall ==
    /\ driver = "openrouter" /\ pc = "tools" /\ callIdx <= Len(response.tool_calls)
    /\ LET call == response.tool_calls[callIdx]
           parsed == ParseArgs(call.arguments)
           last == (callIdx = Len(response.tool_calls))
       IN  IF ~parsed.ok
           THEN /\ messages' = Append(messages, ORToolTurn(call.id, ErrorJson(parsed.error)))
                /\ roundLog' = Append(roundLog, [id |-> call.id, executed |-> FALSE,
                                                 content |-> ErrorJson(parsed.error),
                                                 isError |-> TRUE])
                /\ callIdx' = callIdx + 1
                /\ pc' = IF last THEN "send" ELSE "tools"
                /\ step' = IF last THEN step + 1 ELSE step
                /\ UNCHANGED lastExec
           ELSE \E h \in (IF call.name \in ToolNames THEN HandlerOutcomes(call.name)
                          ELSE {NotInvoked}) :
                  LET o == ExecuteTool(call.name, parsed.value, h, onToolResult)
                  IN  /\ lastExec' = [name |-> call.name, input |-> parsed.value,
                                      handler |-> h, outcome |-> o]
                      /\ IF o.threw
                         THEN /\ pc' = "threw"
                              /\ UNCHANGED <<messages, roundLog, callIdx, step>>
                         ELSE /\ messages' = Append(messages, ORToolTurn(call.id, o.content))
                              /\ roundLog' = Append(roundLog,
                                     [id |-> call.id, executed |-> TRUE,
                                      content |-> o.content, isError |-> o.isError])
                              /\ callIdx' = callIdx + 1
                              /\ pc' = IF last THEN "send" ELSE "tools"
                              /\ step' = IF last THEN step + 1 ELSE step
    /\ UNCHANGED <<driver, hasCtx, onToolResult, response, toolResults, inputTokens,
                   outputTokens, result, request, nInfer, nResponses, rounds, reportedIn,
                   reportedOut, allToolCalls>>
    /\ UNCHANGED <<storeVars, chatVars, handlerVars>>

\* The loop ran out: the fixed fallback message is returned.
OR_Fallback ==
    /\ driver = "openrouter" /\ pc = "send" /\ step >= OR_MaxSteps
    /\ result' = AIResponse(ToolLoopMessage, ModelIdArg, inputTokens, outputTokens)
    /\ pc' = "done"
    /\ UNCHANGED <<driver, hasCtx, onToolResult, step, callIdx, response, messages,
                   toolResults, inputTokens, outputTokens, request, nInfer, nResponses,
                   rounds, reportedIn, reportedOut, allToolCalls, roundLog, lastExec>>
    /\ UNCHANGED <<storeVars, chatVars, handlerVars>>

(***************************************************************************)
(* generateClaudeResponse (src/ai/claude.ts, tool-enabled)                 *)
(***************************************************************************)
\* response.content.filter((block) => block.type === "tool_use")
ToolUses(content) == SelectSeq(content, LAMBDA b : b.type = "tool_use")

FirstText(content) ==
    LET texts == SelectSeq(content, LAMBDA b : b.type = "text")
    IN  IF texts = <<>> THEN "" ELSE texts[1].text
RECURSIVE JoinText(_)
\* content.filter((block) => block.type === "text").map((b) => b.text).join("")
JoinText(content) ==
    IF content = <<>> THEN ""
    ELSE IF Head(content).type = "text"
    THEN Head(content).text \o JoinText(Tail(content))
    ELSE JoinText(Tail(content))

ToolResultBlockNoFlag(id, content, isError) ==
    [type |-> "tool_result", tool_use_id |-> id, content |-> content, is_error |-> FALSE]
ToolResultBlock(id, content, isError) ==
    [type |-> "tool_result", tool_use_id |-> id, content |-> content, is_error |-> isError]

CLAssistantTurn(content) == [role |-> "assistant", blocks |-> content]
CLUserTurn(results) == [role |-> "user", blocks |-> results]

\* apiClient.messages.create(...) is called with the message list.  The
\* response being replaced and the round's toolResults are not read again.
CL_Send ==
    /\ driver = "claude" /\ pc = "send"
    /\ messages' = SentAll(messages)
    /\ request' = [model |-> ModelIdArg, messages |-> messages', tools |-> hasCtx,
                   system |-> SystemPrompt(hasCtx)]
    /\ nInfer' = nInfer + 1
    /\ pc' = "await"
    /\ response' = NoResponse
    /\ toolResults' = <<>>
    /\ roundLog' = <<>>
    /\ lastExec' = NoExec
    /\ UNCHANGED <<driver, hasCtx, onToolResult, step, callIdx, inputTokens,
                   outputTokens, result, nResponses, rounds, reportedIn, reportedOut,
                   allToolCalls>>
    /\ UNCHANGED <<storeVars, chatVars, handlerVars>>

\* The provider client throws.
CL_Error ==
    /\ driver = "claude" /\ pc = "await"
    /\ pc' = "threw"
    /\ UNCHANGED <<driver, hasCtx, onToolResult, step, callIdx, response, messages,
                   toolResults, inputTokens, outputTokens, result, request, nInfer,
                   nResponses, rounds, reportedIn, reportedOut, allToolCalls, roundLog,
                   lastExec>>
    /\ UNCHANGED <<storeVars, chatVars, handlerVars>>

\* The response arrives and its usage is added; a response to a request made
\* inside the loop ends that iteration (step++).
CL_Receive ==
    /\ driver = "claude" /\ pc = "await"
    /\ \E data \in CLResponses(nInfer) :
         /\ response' = data
         /\ inputTokens' = AddTokens(inputTokens, data.usage.input_tokens)
         /\ outputTokens' = AddTokens(outputTokens, data.usage.output_tokens)
         /\ reportedIn' = reportedIn + data.usage.input_tokens
         /\ reportedOut' = reportedOut + data.usage.output_tokens
         /\ allToolCalls' = (allToolCalls /\ Len(ToolUses(data.content)) > 0)
    /\ nResponses' = nResponses + 1
    /\ step' = IF nResponses = 0 THEN step ELSE step + 1
    /\ request' = NoRequest
    /\ pc' = "check"
    /\ UNCHANGED <<driver, hasCtx, onToolResult, callIdx, messages, toolResults, result,
                   nInfer, rounds, roundLog, lastExec>>
    /\ UNCHANGED <<storeVars, chatVars, handlerVars>>

\* The head of a loop iteration: return the text, or start the tool batch.
CL_Check ==
    /\ driver = "claude" /\ pc = "check" /\ step < CL_MaxSteps
    /\ IF Len(ToolUses(response.content)) = 0 \/ ~hasCtx
       THEN /\ result' = AIResponse(JoinText(response.content), response.model,
                                    inputTokens, outputTokens)
            /\ pc' = "done"
            /\ UNCHANGED <<callIdx, toolResults, rounds>>
       ELSE /\ pc' = "tools"
            /\ callIdx' = 1
            /\ toolResults' = <<>>
            /\ rounds' = rounds + 1
            /\ UNCHANGED result
    /\ UNCHANGED <<driver, hasCtx, onToolResult, step, response, messages, inputTokens,
                   outputTokens, request, nInfer, nResponses, reportedIn, reportedOut,
                   allToolCalls, roundLog, lastExec>>
    /\ UNCHANGED <<storeVars, chatVars, handlerVars>>

\* One iteration of for (const toolUse of toolUses).
CL_ToolUse ==
    /\ driver = "claude" /\ pc = "tools"
    /\ callIdx <= Len(ToolUses(response.content))
    /\ LET toolUse == ToolUses(response.content)[callIdx]
           last == (callIdx = Len(ToolUses(response.content)))
       IN  \E h \in (IF toolUse.name \in ToolNames THEN HandlerOutcomes(toolUse.name)
                     ELSE {NotInvoked}) :
             LET o == ExecuteTool(toolUse.name, toolUse.input, h, onToolResult)
             IN  /\ lastExec' = [name |-> toolUse.name, input |-> toolUse.input,
                                 handler |-> h, outcome |-> o]
                 /\ IF o.threw
                    THEN /\ pc' = "threw"
                         /\ UNCHANGED <<toolResults, roundLog, callIdx>>
                    ELSE /\ toolResults' = Append(toolResults,
                                ToolResultBlock(toolUse.id, o.content, o.isError))
                         /\ roundLog' = Append(roundLog,
                                [id |-> toolUse.id, executed |-> TRUE,
                                 content |-> o.content, isError |-> o.isError])
                         /\ callIdx' = callIdx + 1
                         /\ pc' = IF last THEN "append" ELSE "tools"
    /\ UNCHANGED <<driver, hasCtx, onToolResult, step, response, messages, inputTokens,
                   outputTokens, result, request, nInfer, nResponses, rounds, reportedIn,
                   reportedOut, allToolCalls>>
    /\ UNCHANGED <<storeVars, chatVars, handlerVars>>

\* The two turns are pushed: the assistant's content, then the tool results.
CL_Append ==
    /\ driver = "claude" /\ pc = "append"
    /\ messages' = messages \o <<CLAssistantTurn(response.content), CLUserTurn(toolResults)>>
    /\ pc' = "send"
    /\ UNCHANGED <<driver, hasCtx, onToolResult, step, callIdx, response, toolResults,
                   inputTokens, outputTokens, result, request, nInfer, nResponses, rounds,
                   reportedIn, reportedOut, allToolCalls, roundLog, lastExec>>
    /\ UNCHANGED <<storeVars, chatVars, handlerVars>>

\* The loop ran out: the text of the last response is returned.
CL_Fallback ==
    /\ driver = "claude" /\ pc = "check" /\ step >= CL_MaxSteps
    /\ result' = AIResponse(JoinText(response.content), response.model,
                            inputTokens, outputTokens)
    /\ pc' = "done"
    /\ UNCHANGED <<driver, hasCtx, onToolResult, step, callIdx, response, messages,
                   toolResults, inputTokens, outputTokens, request, nInfer, nResponses,
                   rounds, reportedIn, reportedOut, allToolCalls, roundLog, lastExec>>
    /\ UNCHANGED <<storeVars, chatVars, handlerVars>>

(***************************************************************************)
(* Strings the model router and the model tools compare: sequences of      *)
(* characters                                                              *)
(***************************************************************************)
UpperCase == <<"A", "B", "C", "D", "E", "F", "G", "H", "I", "J", "K", "L", "M",
               "N", "O", "P", "Q", "R", "S", "T", "U", "V", "W", "X", "Y", "Z">>
LowerCase == <<"a", "b", "c", "d", "e", "f", "g", "h", "i", "j", "k", "l", "m",
               "n", "o", "p", "q", "r", "s", "t", "u", "v", "w", "x", "y", "z">>
DigitChars == <<"0", "1", "2", "3", "4", "5", "6", "7", "8", "9">>
\* The characters of the names below in code-unit order.
CodeOrder == <<" ", "!", "-", ".", "/">> \o DigitChars \o UpperCase \o LowerCase
Chars == {CodeOrder[i] : i \in 1..Len(CodeOrder)}
CharCode == [c \in Chars |-> CHOOSE i \in 1..Len(CodeOrder) : CodeOrder[i] = c]

\* String.prototype.toLowerCase, character by character
LowerChar ==
    [c \in Chars |->
        IF \E i \in 1..Len(UpperCase) : UpperCase[i] = c
        THEN LowerCase[CHOOSE i \in 1..Len(UpperCase) : UpperCase[i] = c]
        ELSE c]
ToLowerCase(value) == [i \in 1..Len(value) |-> LowerChar[value[i]]]

\* [a-z0-9]
LowerAlphaNum ==
    {LowerCase[i] : i \in 1..Len(LowerCase)} \cup {DigitChars[i] : i \in 1..Len(DigitChars)}
IsLowerAlphaNum(c) == c \in LowerAlphaNum

\* const normalize = (value) => value.toLowerCase().replace(/[^a-z0-9]+/g, "")
Normalize(value) == SelectSeq(ToLowerCase(value), IsLowerAlphaNum)

RECURSIVE TrimStart(_)
TrimStart(value) ==
    IF value # <<>> /\ Head(value) = " " THEN TrimStart(Tail(value)) ELSE value
RECURSIVE TrimEnd(_)
TrimEnd(value) ==
    IF value # <<>> /\ value[Len(value)] = " "
    THEN TrimEnd(SubSeq(value, 1, Len(value) - 1))
    ELSE value
\* String.prototype.trim
Trim(value) == TrimEnd(TrimStart(value))

RECURSIVE StringLess(_, _)
\* a < b in SQLite's BINARY collation
StringLess(a, b) ==
    IF b = <<>> THEN FALSE
    ELSE IF a = <<>> THEN TRUE
    ELSE IF Head(a) # Head(b) THEN CharCode[Head(a)] < CharCode[Head(b)]
    ELSE StringLess(Tail(a), Tail(b))

(***************************************************************************)
(* The model registry (src/ai/models.ts) and the OpenRouter catalog        *)
(* (src/ai/openrouter_models.ts)                                           *)
(***************************************************************************)
Row(id, provider, modelId, displayName, enabled) ==
    [id |-> id, provider |-> provider, modelId |-> modelId,
     displayName |-> displayName, enabled |-> enabled]

\* Aliases, provider ids and display names of the registry at start.
Alias_k2 == <<"k", "2">>
Alias_op == <<"o", "p">>
Alias_M_K2 == <<"M", "-", "K", "2">>
ModelId_m_k2 == <<"m", "/", "k", "2">>
ModelId_c_x == <<"c", "/", "x">>
Display_KimiK2 == <<"K", "i", "m", "i", " ", "K", "2">>
Display_Opus == <<"O", "p", "u", "s">>
Display_K_2 == <<"K", ".", "2">>
Display_Kimi2 == <<"K", "i", "m", "i", "2">>
CatalogId_z_new == <<"z", "/", "n", "e", "w">>
CatalogName_ZNew == <<"Z", " ", "N", "e", "w">>

\* model_config at start: the alias of the first row is the provider id of
\* the second, the provider id of the first normalizes to the alias of the
\* third, and the display name of the third normalizes to the alias of the
\* first.
DefaultModels ==
    {Row(Alias_k2, "openrouter", ModelId_m_k2, Display_KimiK2, TRUE),
     Row(Alias_op, "claude", Alias_k2, Display_Opus, TRUE),
     Row(Alias_M_K2, "claude", ModelId_c_x, Display_K_2, TRUE)}

\* GET https://openrouter.ai/api/v1/models: payload.data
RemoteCatalog == <<[id |-> CatalogId_z_new, name |-> CatalogName_ZNew]>>

NoModel == [id |-> <<>>, none |-> TRUE]

\* ORDER BY provider, id
RowBefore(a, b) ==
    \/ a.provider = "claude" /\ b.provider = "openrouter"
    \/ a.provider = b.provider /\ StringLess(a.id, b.id)

RECURSIVE SortRows(_)
SortRows(rows) ==
    IF rows = {} THEN <<>>
    ELSE LET first == CHOOSE r \in rows : \A q \in rows \ {r} : RowBefore(r, q)
         IN  <<first>> \o SortRows(rows \ {first})

\* getAvailableModels()
GetAvailableModels(table) == SortRows(table)

GetModelByAliasNormalized(table, alias) ==
    IF \E r \in table : Normalize(r.id) = Normalize(alias)
    THEN CHOOSE r \in table : Normalize(r.id) = Normalize(alias)
    ELSE NoModel
GetModelByAliasAtStart(table, alias) ==
    IF \E r \in DefaultModels : r.id = alias
    THEN CHOOSE r \in DefaultModels : r.id = alias
    ELSE NoModel
\* getModelByAlias(alias) / getModelById(id): SELECT ... WHERE id = ?
GetModelByAlias(table, alias) ==
    IF \E r \in table : r.id = alias
    THEN CHOOSE r \in table : r.id = alias
    ELSE NoModel

\* getModelByProviderId(modelId): SELECT ... WHERE model_id = ?  The rows the
\* query may return; model_id is not unique.
ProviderIdMatches(table, modelId) ==
    IF \E r \in table : r.modelId = modelId
    THEN {r \in table : r.modelId = modelId}
    ELSE {NoModel}

\* models.find(predicate) || null
Find(models, Matches(_)) ==
    LET hits == SelectSeq(models, Matches)
    IN  IF hits = <<>> THEN NoModel ELSE hits[1]

\* updateModel(id, updates): a field that is undefined is not in updates.
UpdateModel(table, id, updates) ==
    {IF r.id # id THEN r
     ELSE [r EXCEPT
             !.displayName = IF "displayName" \in DOMAIN updates
                             THEN updates.displayName ELSE @,
             !.enabled = IF "enabled" \in DOMAIN updates
                         THEN updates.enabled ELSE @] : r \in table}

\* createModel(params): the row is inserted and returned.
CreateModel(table, row) == table \cup {row}

(***************************************************************************)
(* The OpenRouter catalog cache (src/ai/openrouter_models.ts)              *)
(***************************************************************************)
DefaultMaxAgeMs == 1000 * 60 * 60 * 24
\* Number.MAX_SAFE_INTEGER: the largest integer of this model's arithmetic
\* stands for it; every clock value is far below it.
MaxSafeInteger == 2147483647

\* Time strings.  new Date(ms).toISOString() writes one that Date.parse reads
\* back; Date.parse of any other string is NaN, here the empty sequence.
ToISOString(ms) == [iso |-> ms]
NotADate == [text |-> "yesterday"]
DateParse(value) == IF "iso" \in DOMAIN value THEN <<value.iso>> ELSE <<>>

\* The catalog cache file: absent, or the text it holds.  shape says what
\* JSON.parse makes of the text: "text" is no JSON; "null" is the value null;
\* "object" is an object whose fields are the remaining fields of the record,
\* models being present only when it is an array and fetchedAt only when it
\* is a string.
NoCacheFile == [shape |-> "absent"]
NotJsonFile == [shape |-> "text"]
JsonNullFile == [shape |-> "null"]
ModelsNotArrayFile(fetchedAt) == [shape |-> "object", fetchedAt |-> fetchedAt]
FetchedAtNotStringFile(models) == [shape |-> "object", models |-> models]
CacheFile(fetchedAt, models) ==
    [shape |-> "object", fetchedAt |-> fetchedAt, models |-> models]

NoSnapshot == [none |-> TRUE]
Snapshot(fetchedAt, models) == [fetchedAt |-> fetchedAt, models |-> models]

ReadCacheUnchecked(file) ==
    IF file.shape # "object" THEN NoSnapshot
    ELSE Snapshot(IF "fetchedAt" \in DOMAIN file THEN file.fetchedAt ELSE NotADate,
                  IF "models" \in DOMAIN file THEN file.models ELSE <<>>)
\* readCache(): null when the file does not exist, when JSON.parse throws and
\* when the parsed value fails the shape test.
ReadCache(file) ==
    IF file.shape = "absent" THEN NoSnapshot
    ELSE IF file.shape = "text" THEN NoSnapshot
    ELSE IF \/ file.shape = "null"
            \/ "models" \notin DOMAIN file
            \/ "fetchedAt" \notin DOMAIN file
    THEN NoSnapshot
    ELSE Snapshot(file.fetchedAt, file.models)

WriteCacheTruncated(cache) == [shape |-> "text"]
\* writeCache(cache): JSON.stringify(cache) replaces the file.
WriteCache(cache) == CacheFile(cache.fetchedAt, cache.models)

IsCacheFreshInclusive(cache, maxAgeMs, now) ==
    LET fetchedAt == DateParse(cache.fetchedAt)
    IN  IF fetchedAt = <<>> THEN FALSE ELSE now - fetchedAt[1] <= maxAgeMs
\* isCacheFresh(cache, maxAgeMs) when Date.now() is now
IsCacheFresh(cache, maxAgeMs, now) ==
    LET fetchedAt == DateParse(cache.fetchedAt)
    IN  IF fetchedAt = <<>> THEN FALSE ELSE now - fetchedAt[1] < maxAgeMs

\* What the network request of a refresh can end in; NoApiKey is the
\* configuration without a key, under which no request is made.
NoApiKey == [kind |-> "noKey"]
HttpFailure == [kind |-> "http", status |-> "500", text |-> "down"]
MissingData == [kind |-> "noData"]
Fetched(data) == [kind |-> "ok", data |-> data]

ApiKeyMissingMessage == "OpenRouter API key not configured"
HttpFailureMessage(net) == "OpenRouter models error: " \o net.status \o " " \o net.text
MissingDataMessage == "OpenRouter models response missing data array"

\* The outcome of a catalog operation: threw with error, or the snapshot
\* returned; file is the cache file afterwards, requests the number of
\* network requests made.
CatalogThrew(error, file, requests) ==
    [threw |-> TRUE, error |-> error, cache |-> NoSnapshot, source |-> "none",
     file |-> file, requests |-> requests]
CatalogReturned(cache, source, file, requests) ==
    [threw |-> FALSE, error |-> "", cache |-> cache, source |-> source,
     file |-> file, requests |-> requests]

RefreshWritesBeforeChecking(file, now, net) ==
    IF net.kind = "ok"
    THEN CatalogReturned(Snapshot(ToISOString(now), net.data), "refresh",
                         CacheFile(ToISOString(now), net.data), 1)
    ELSE CatalogThrew("refresh failed", CacheFile(ToISOString(now), <<>>), 1)
\* refreshOpenRouterModels() when Date.now() is now and the network answers net
RefreshOpenRouterModels(file, now, net) ==
    IF net.kind = "noKey" THEN CatalogThrew(ApiKeyMissingMessage, file, 0)
    ELSE IF net.kind = "http" THEN CatalogThrew(HttpFailureMessage(net), file, 1)
    ELSE IF net.kind = "noData" THEN CatalogThrew(MissingDataMessage, file, 1)
    ELSE LET cache == Snapshot(ToISOString(now), net.data)
         IN  CatalogReturned(cache, "refresh", WriteCache(cache), 1)

NoOptions == <<>>

\* Date.now() at a call: the age of a file written at 0 is one below the
\* default limit, or the limit.
Clock == {DefaultMaxAgeMs - 1, DefaultMaxAgeMs}

\* options.refresh is a boolean or undefined, options.maxAgeMs a number or
\* undefined; an undefined option is a field the record does not have.
OptionOr(options, field, default) ==
    IF field \in DOMAIN options THEN options[field] ELSE default

\* getOpenRouterModels(options)
GetOpenRouterModels(file, options, now, net) ==
    LET maxAgeMs == OptionOr(options, "maxAgeMs", DefaultMaxAgeMs)
        cached == ReadCache(file)
    IN  IF /\ ~OptionOr(options, "refresh", FALSE)
           /\ cached # NoSnapshot
           /\ IsCacheFresh(cached, maxAgeMs, now)
        THEN CatalogReturned(cached, "cache", file, 0)
        ELSE RefreshOpenRouterModels(file, now, net)

(***************************************************************************)
(* Catalog search (src/ai/openrouter_models.ts)                            *)
(***************************************************************************)
\* A number or string field of a catalog entry is a field of the record; a
\* field of another type is left out, as getNumberField and getStringField
\* leave it out.  A missing number is the empty sequence.
NumberField(model, key) == IF key \in DOMAIN model THEN <<model[key]>> ELSE <<>>

\* getModelCreated(model): created ?? created_at ?? updated ?? null
GetModelCreated(model) ==
    IF NumberField(model, "created") # <<>> THEN NumberField(model, "created")
    ELSE IF NumberField(model, "created_at") # <<>> THEN NumberField(model, "created_at")
    ELSE NumberField(model, "updated")

\* created ?? 0
CreatedOrZero(created) == IF created = <<>> THEN 0 ELSE created[1]

\* query.toLowerCase().split(/\s+/).filter(Boolean)
RECURSIVE SplitWords(_)
SplitWords(value) ==
    LET rest == TrimStart(value)
        stop == IF \E i \in 1..Len(rest) : rest[i] = " "
                THEN (CHOOSE i \in 1..Len(rest) :
                         /\ rest[i] = " "
                         /\ \A j \in 1..(i - 1) : rest[j] # " ") - 1
                ELSE Len(rest)
    IN  IF rest = <<>> THEN <<>>
        ELSE <<SubSeq(rest, 1, stop)>> \o SplitWords(SubSeq(rest, stop + 1, Len(rest)))

\* parts.join(" ")
RECURSIVE JoinWords(_)
JoinWords(parts) ==
    IF parts = <<>> THEN <<>>
    ELSE IF Len(parts) = 1 THEN parts[1]
    ELSE parts[1] \o <<" ">> \o JoinWords(Tail(parts))

Includes(haystack, term) ==
    \E i \in 1..(Len(haystack) - Len(term) + 1) :
        SubSeq(haystack, i, i + Len(term) - 1) = term
StartsWith(haystack, prefix) ==
    /\ Len(prefix) <= Len(haystack)
    /\ SubSeq(haystack, 1, Len(prefix)) = prefix

\* [model.id, name, description].filter(Boolean).join(" ").toLowerCase()
Haystack(model) ==
    ToLowerCase(JoinWords(SelectSeq(
        <<model.id,
          IF "name" \in DOMAIN model THEN model.name ELSE <<>>,
          IF "description" \in DOMAIN model THEN model.description ELSE <<>>>>,
        LAMBDA part : part # <<>>)))

RECURSIVE TermScore(_, _)
TermScore(haystack, terms) ==
    IF terms = <<>> THEN 0
    ELSE (IF Includes(haystack, terms[1])
          THEN (IF Len(terms[1]) > 3 THEN 2 ELSE 1) ELSE 0)
         + TermScore(haystack, Tail(terms))

\* scoreModel(model, terms)
ScoreModel(model, terms) ==
    IF terms = <<>> THEN 0
    ELSE TermScore(Haystack(model), terms)
         + (IF StartsWith(Haystack(model), JoinWords(terms)) THEN 3 ELSE 0)

CompareOldestFirst(a, b, sort) ==
    CreatedOrZero(a.created) - CreatedOrZero(b.created)
\* The comparator of filtered.sort: negative when a goes before b.
Compare(a, b, sort) ==
    IF sort = "recent" THEN CreatedOrZero(b.created) - CreatedOrZero(a.created)
    ELSE IF b.score # a.score THEN b.score - a.score
    ELSE CreatedOrZero(b.created) - CreatedOrZero(a.created)

\* Array.prototype.sort is stable: an item goes before the first item it
\* compares below, and after every item it ties with.
RECURSIVE InsertSorted(_, _, _)
InsertSorted(item, sorted, sort) ==
    IF sorted = <<>> THEN <<item>>
    ELSE IF Compare(item, sorted[1], sort) < 0 THEN <<item>> \o sorted
    ELSE <<sorted[1]>> \o InsertSorted(item, Tail(sorted), sort)
RECURSIVE SortScored(_, _)
SortScored(items, sort) ==
    IF items = <<>> THEN <<>>
    ELSE InsertSorted(items[Len(items)],
                      SortScored(SubSeq(items, 1, Len(items) - 1), sort), sort)

Min(a, b) == IF a < b THEN a ELSE b
Max(a, b) == IF a > b THEN a ELSE b

ClampLimitUpperOnly(options) == Min(OptionOr(options, "limit", 5), 25)
\* Math.max(1, Math.min(options.limit ?? 5, 25))
ClampLimit(options) == Max(1, Min(OptionOr(options, "limit", 5), 25))

\* filtered.slice(0, limit)
Slice(items, limit) == SubSeq(items, 1, Min(limit, Len(items)))

SearchResult(query, total, results, fetchedAt, source) ==
    [query |-> query, total |-> total, results |-> results,
     fetchedAt |-> fetchedAt, source |-> source]

\* The part of searchOpenRouterModels after the catalog has been obtained.
SearchCatalog(cache, source, options) ==
    LET query == Trim(OptionOr(options, "query", <<>>))
        limit == ClampLimit(options)
        terms == SplitWords(ToLowerCase(query))
        scored == [i \in 1..Len(cache.models) |->
                     [model |-> cache.models[i],
                      score |-> ScoreModel(cache.models[i], terms),
                      created |-> GetModelCreated(cache.models[i])]]
        filtered == IF Len(terms) > 0
                    THEN SelectSeq(scored, LAMBDA item : item.score > 0)
                    ELSE scored
        sort == OptionOr(options, "sort", IF Len(terms) > 0 THEN "relevance" ELSE "recent")
        sorted == SortScored(filtered, sort)
        page == Slice(sorted, limit)
    IN  SearchResult(query, Len(filtered),
                     [i \in 1..Len(page) |->
                        [id |-> page[i].model.id, created |-> page[i].created]],
                     cache.fetchedAt, source)

\* searchOpenRouterModels(options): result is the value returned.
SearchOpenRouterModels(file, options, now, net) ==
    LET got == GetOpenRouterModels(file,
                   [f \in DOMAIN options \cap {"refresh", "maxAgeMs"} |-> options[f]],
                   now, net)
    IN  IF got.threw THEN [got EXCEPT !.cache = NoSnapshot] @@ [result |-> NoSnapshot]
        ELSE got @@ [result |-> SearchCatalog(got.cache, got.source, options)]

NoEntry == [id |-> <<>>, none |-> TRUE]

\* cache.models.find((entry) => entry.id.toLowerCase() === normalizedLower) || null
CatalogFind(models, normalized) ==
    LET hits == SelectSeq(models,
                    LAMBDA entry : ToLowerCase(entry.id) = ToLowerCase(normalized))
    IN  IF hits = <<>> THEN NoEntry ELSE hits[1]

\* typeof openRouterModel.name === "string" ? openRouterModel.name : openRouterModel.id
CatalogDisplayName(entry) == IF "name" \in DOMAIN entry THEN entry.name ELSE entry.id

(***************************************************************************)
(* The handlers of list_models and switch_model (src/ai/tools.ts)          *)
(***************************************************************************)
\* A tool input is a bare string or an object; a field value that is no
\* string is NotAString.
NotAString == <<"<number>">>
StringInput(value) == [kind |-> "string", fields |-> <<>>, value |-> value]
ObjectInput(fields) == [kind |-> "object", fields |-> fields, value |-> <<>>]

ModelFieldNames == <<"model", "model_id", "modelId", "model_name", "modelName",
                     "id", "name">>

RECURSIVE FirstStringField(_, _)
\* (typeof data.model === "string" ? data.model : undefined) || ... ; the
\* empty sequence stands for undefined and for "".
FirstStringField(data, names) ==
    IF names = <<>> THEN <<>>
    ELSE IF Head(names) \in DOMAIN data /\ data[Head(names)] # NotAString
                                        /\ data[Head(names)] # <<>>
    THEN data[Head(names)]
    ELSE FirstStringField(data, Tail(names))

\* const modelId = (typeof input === "string" ? input : undefined) || ...
ModelIdOf(input) ==
    IF input.kind = "string" THEN input.value
    ELSE FirstStringField(input.fields, ModelFieldNames)

NormalizedMatchEitherField(models, value) ==
    Find(models, LAMBDA item : \/ Normalize(item.id) = Normalize(value)
                               \/ Normalize(item.displayName) = Normalize(value))
\* models.find((item) => normalize(item.id) === normalizedValue) ||
\* models.find((item) => normalize(item.displayName) === normalizedValue) || null
NormalizedMatch(models, value) ==
    LET byId == Find(models, LAMBDA item : Normalize(item.id) = Normalize(value))
    IN  IF byId # NoModel THEN byId
        ELSE Find(models, LAMBDA item : Normalize(item.displayName) = Normalize(value))

\* The model found in the registry: (await getModelByAlias(normalized)) ??
\* (await getModelByProviderId(normalized)), then the normalized match.
\* byProviderId is the row getModelByProviderId returns.
ResolveRegistered(table, normalized, byProviderId) ==
    LET byAlias == GetModelByAlias(table, normalized)
    IN  IF byAlias # NoModel THEN byAlias
        ELSE IF byProviderId # NoModel THEN byProviderId
        ELSE NormalizedMatch(GetAvailableModels(table), normalized)

\* The outcomes of refreshOpenRouterModels() that switch_model tells apart.
RefreshOutcomes == {Fetched(RemoteCatalog), HttpFailure}

\* The catalog lookup of switch_model: the cached catalog of any age (fetched
\* when there is none), then a refresh when the name is not in it.  r1 and r2
\* are the answers of the network to the two possible refreshes; an error of
\* either is caught.
CatalogLookup(file, normalized, now, r1, r2) ==
    LET first == GetOpenRouterModels(file,
                     [refresh |-> FALSE, maxAgeMs |-> MaxSafeInteger], now, r1)
        found == IF first.threw THEN NoEntry
                 ELSE CatalogFind(first.cache.models, normalized)
        second == RefreshOpenRouterModels(first.file, now, r2)
    IN  IF found # NoEntry THEN [entry |-> found, cache |-> first.file]
        ELSE IF second.threw THEN [entry |-> NoEntry, cache |-> second.file]
        ELSE [entry |-> CatalogFind(second.cache.models, normalized),
              cache |-> second.file]

NotFoundResult(normalized, models) ==
    [ok |-> FALSE, error |-> <<"Model '", normalized, "' not found">>,
     available_models |-> [i \in 1..Len(models) |-> models[i].id]]
DisabledResult(model) ==
    [ok |-> FALSE, error |-> <<"Model '", model.displayName, "' is disabled">>]
SwitchedResult(model) ==
    [ok |-> TRUE, model |-> [id |-> model.id, display_name |-> model.displayName,
                             provider |-> model.provider]]
MissingModelField == "Missing required 'model' field."

ToolCall(name, input, model, content, isError) ==
    [op |-> name, input |-> input, model |-> model, content |-> content,
     isError |-> isError]

NoCall == [op |-> "none"]

(***************************************************************************)
(* The tool schemas exported to the providers (src/ai/tools.ts)            *)
(***************************************************************************)
ToolDefinition(name, description, inputSchema) ==
    [name |-> name, description |-> description, inputSchema |-> inputSchema]
ObjectSchema(properties, required) ==
    [type |-> "object", properties |-> properties, required |-> required,
     additionalProperties |-> FALSE]

\* TOOL_DEFINITIONS without the handlers
ToolDefinitions ==
    <<ToolDefinition("list_models", "List available models Finn can use.",
                     ObjectSchema({"provider", "include_disabled"}, {})),
      ToolDefinition("switch_model", "Switch the current user's preferred model.",
                     ObjectSchema({"model"}, {"model"})),
      ToolDefinition("reset_conversation", "Reset the user's conversation history.",
                     ObjectSchema({}, {})),
      ToolDefinition("openrouter_refresh_models", "Fetch the latest OpenRouter models.",
                     ObjectSchema({"force"}, {})),
      ToolDefinition("openrouter_search_models", "Search OpenRouter's model catalog.",
                     ObjectSchema({"query", "limit", "sort", "refresh"}, {}))>>

\* getClaudeTools()
GetClaudeTools(definitions) ==
    [i \in 1..Len(definitions) |->
        [name |-> definitions[i].name,
         description |-> definitions[i].description,
         input_schema |-> definitions[i].inputSchema]]

GetOpenRouterToolsNamesOnly(definitions) ==
    [i \in 1..Len(definitions) |->
        [type |-> "function",
         function |-> [name |-> definitions[i].name,
                       description |-> "",
                       parameters |-> definitions[i].inputSchema]]]
\* getOpenRouterTools()
GetOpenRouterTools(definitions) ==
    [i \in 1..Len(definitions) |->
        [type |-> "function",
         function |-> [name |-> definitions[i].name,
                       description |-> definitions[i].description,
                       parameters |-> definitions[i].inputSchema]]]

(***************************************************************************)
(* The conversation store (src/services/conversations.ts)                  *)
(***************************************************************************)
\* slack_thread_ts NULL, and a threadTs that is undefined
NoThread == ""

\* A row of table conversations; its id is its place in the table.
ConversationRow(userId, channelId, threadTs, model, status) ==
    [userId |-> userId, channelId |-> channelId, threadTs |-> threadTs,
     model |-> model, status |-> status]

AnyStatusMatches(table, params) ==
    {i \in 1..Len(table) :
        /\ table[i].userId = params.userId
        /\ table[i].channelId = params.channelId
        /\ table[i].threadTs = params.threadTs}
\* The rows the SELECT of getOrCreateConversation matches.
ActiveMatches(table, params) ==
    {i \in 1..Len(table) :
        /\ table[i].userId = params.userId
        /\ table[i].channelId = params.channelId
        /\ table[i].threadTs = params.threadTs
        /\ table[i].status = "active"}

\* getOrCreateConversation(params): the table afterwards and the id returned
GetOrCreateConversation(table, params) ==
    LET existing == ActiveMatches(table, params)
    IN  IF existing # {}
        THEN [table |-> table,
              id |-> CHOOSE i \in existing : \A j \in existing : i <= j,
              created |-> FALSE]
        ELSE [table |-> Append(table, ConversationRow(params.userId, params.channelId,
                                                     params.threadTs, params.model,
                                                     "active")),
              id |-> Len(table) + 1,
              created |-> TRUE]

ResetFirstConversationOnly(table, userId) ==
    LET active == {i \in 1..Len(table) :
                      table[i].userId = userId /\ table[i].status = "active"}
    IN  [i \in 1..Len(table) |->
            IF active # {} /\ i = (CHOOSE k \in active : \A j \in active : k <= j)
            THEN [table[i] EXCEPT !.status = "archived"]
            ELSE table[i]]
\* resetUserConversation(userId)
ResetUserConversation(table, userId) ==
    [i \in 1..Len(table) |->
        IF table[i].userId = userId /\ table[i].status = "active"
        THEN [table[i] EXCEPT !.status = "archived"]
        ELSE table[i]]

\* addMessage(params): the row inserted into table messages
AddMessage(table, row) == Append(table, row)
UserMessageRow(conversationId, content) ==
    [conversationId |-> conversationId, role |-> "user", content |-> content]
AssistantMessageRow(conversationId, answer) ==
    [conversationId |-> conversationId, role |-> "assistant",
     content |-> answer.content, model |-> answer.model,
     inputTokens |-> answer.inputTokens, outputTokens |-> answer.outputTokens]

\* getMessages(conversationId): a new list of Message objects made from the
\* rows of the conversation
GetMessages(table, conversationId) ==
    LET rows == SelectSeq(table, LAMBDA row : row.conversationId = conversationId)
    IN  [i \in 1..Len(rows) |-> [role |-> rows[i].role, content |-> rows[i].content]]

UserIds == {"U1", "U2"}
ActingUser == "U1"
DirectChannel == "D1"

\* The conversation under way when a driver is invoked: handleMessage has
\* found or created it, stored the user's message and read the history.
\* No handler has been started, nothing has been posted, no login is pending.
HandlersAtStart ==
    /\ handlers = <<>>
    /\ users = [id \in UserIds |-> Alias_op]
    /\ slack = <<>>
    /\ auth = [pendingStates |-> {}, sessions |-> {}]

ChatAtStart ==
    /\ HandlersAtStart
    /\ toolDefinitions = ToolDefinitions
    /\ conversations = <<ConversationRow(ActingUser, DirectChannel, NoThread,
                                         Alias_op, "active")>>
    /\ storedMessages = <<UserMessageRow(1, "List models")>>
    /\ history = GetMessages(storedMessages, 1)

\* The stores before anything has run: the user prefers the alias op.
StoresAtStart ==
    /\ modelConfig = DefaultModels
    /\ catalogCache = NoCacheFile
    /\ userPref = Alias_op
    /\ ctxPref = Alias_op
    /\ switchedTo = <<>>
    /\ lastCall = NoCall
    /\ ChatAtStart

(***************************************************************************)
(* One invocation                                                          *)
(***************************************************************************)
Drivers == {"openrouter", "claude"}
Callbacks == {"none", "ok", "throws"}

Init ==
    /\ driver \in Drivers
    /\ hasCtx \in BOOLEAN
    /\ onToolResult \in (IF hasCtx THEN Callbacks ELSE {"none"})
    /\ pc = "send"
    /\ step = 0
    /\ callIdx = 0
    /\ response = NoResponse
    /\ messages = IF driver = "openrouter" THEN InitialOpenRouterMessages(hasCtx)
                  ELSE InitialAnthropicMessages
    /\ toolResults = <<>>
    /\ inputTokens = 0
    /\ outputTokens = 0
    /\ result = NoResult
    /\ request = NoRequest
    /\ nInfer = 0
    /\ nResponses = 0
    /\ rounds = 0
    /\ reportedIn = 0
    /\ reportedOut = 0
    /\ allToolCalls = TRUE
    /\ roundLog = <<>>
    /\ lastExec = NoExec
    /\ StoresAtStart

PersistAnswerBeforeReturn ==
    /\ pc \in {"tools", "append"}
    /\ Len(storedMessages) = Len(history)
    /\ storedMessages' = AddMessage(storedMessages,
                              AssistantMessageRow(1, AIResponse("", ModelIdArg,
                                                               inputTokens, outputTokens)))
    /\ UNCHANGED <<handlerVars, loopVars, storeVars, toolDefinitions, conversations, history>>
\* handleMessage after generateResponse has returned: the answer is added to
\* the conversation, once.
PersistAnswer ==
    /\ pc = "done"
    /\ Len(storedMessages) = Len(history)
    /\ storedMessages' = AddMessage(storedMessages, AssistantMessageRow(1, result))
    /\ UNCHANGED <<handlerVars, loopVars, storeVars, toolDefinitions, conversations, history>>

Next ==
    \/ PersistAnswer
    \/ OR_Send
    \/ OR_HttpError
    \/ OR_Receive
    \/ OR_ToolCall
    \/ OR_Fallback
    \/ CL_Send
    \/ CL_Error
    \/ CL_Receive
    \/ CL_Check
    \/ CL_ToolUse
    \/ CL_Append
    \/ CL_Fallback

Spec == Init /\ [][Next]_vars

(***************************************************************************)
(* executeTool on its own: every registered tool, an unknown name, every   *)
(* handler outcome and every kind of callback                              *)
(***************************************************************************)
ToolInputs == {EmptyObject, [type |-> "string"]}

ToolInit ==
    /\ driver = "none"
    /\ hasCtx = TRUE
    /\ onToolResult \in Callbacks
    /\ pc = "tool"
    /\ \E name \in ToolNames \cup UnknownNames, input \in ToolInputs :
         \E h \in (IF name \in ToolNames THEN HandlerOutcomes(name) ELSE {NotInvoked}) :
           lastExec = [name |-> name, input |-> input, handler |-> h,
                       outcome |-> NoExec.outcome]
    /\ step = 0
    /\ callIdx = 0
    /\ response = NoResponse
    /\ messages = <<>>
    /\ toolResults = <<>>
    /\ inputTokens = 0
    /\ outputTokens = 0
    /\ result = NoResult
    /\ request = NoRequest
    /\ nInfer = 0
    /\ nResponses = 0
    /\ rounds = 0
    /\ reportedIn = 0
    /\ reportedOut = 0
    /\ allToolCalls = TRUE
    /\ roundLog = <<>>
    /\ StoresAtStart

\* await executeTool(name, input, context)
ToolRun ==
    /\ pc = "tool"
    /\ LET o == ExecuteTool(lastExec.name, lastExec.input, lastExec.handler, onToolResult)
       IN  /\ lastExec' = [lastExec EXCEPT !.outcome = o]
           /\ pc' = IF o.threw THEN "threw" ELSE "returned"
    /\ UNCHANGED <<driver, hasCtx, onToolResult, step, callIdx, response, messages,
                   toolResults, inputTokens, outputTokens, result, request, nInfer,
                   nResponses, rounds, reportedIn, reportedOut, allToolCalls, roundLog>>
    /\ UNCHANGED <<storeVars, chatVars, handlerVars>>

ToolNext == ToolRun

SpecTool == ToolInit /\ [][ToolNext]_vars

(***************************************************************************)
(* The model router (generateResponse), the model tools and the admin API  *)
(* working on the stores, for the lifetime of ToolContexts of one user     *)
(***************************************************************************)
Name_K2 == <<"K", "2">>
Name_opus == <<"o", "p", "u", "s">>
Name_Z_New == <<"Z", "/", "N", "e", "w">>
Name_nope == <<"n", "o", "p", "e">>
Name_k2_padded == <<" ", "k", "2", " ">>
Name_blank == <<" ">>

\* The aliases generateResponse is called with.
RouterAliases == {Alias_k2, Alias_op, Alias_M_K2, Name_K2, CatalogId_z_new}

\* The inputs switch_model is called with.
SwitchInputs ==
    {StringInput(n) : n \in {Alias_k2, Name_K2, ModelId_m_k2, Name_opus, Name_Z_New,
                             Name_nope, Name_k2_padded, Name_blank, Alias_M_K2}}
    \cup {ObjectInput(<<>>),
          ObjectInput([model |-> Alias_op]),
          ObjectInput([model |-> NotAString, name |-> Alias_op, id |-> Name_K2]),
          ObjectInput([model |-> <<>>, modelName |-> Name_Z_New])}

\* The inputs list_models is called with, defaults filled in.
ListInputs == {[provider |-> "all", include_disabled |-> TRUE],
               [provider |-> "claude", include_disabled |-> FALSE]}

\* The bodies POST /models/:id is called with.
ModelUpdates ==
    {<<id, [enabled |-> e]>> : id \in {Alias_k2, Alias_op}, e \in BOOLEAN}
    \cup {<<Alias_k2, [displayName |-> d]>> : d \in {Display_KimiK2, Display_Kimi2}}
    \cup {<<Alias_k2, <<>>>>, <<Name_nope, [enabled |-> FALSE]>>}

NotThrown == <<>>
ModelNotFound(modelAlias) == <<"Model \"", modelAlias, "\" not found">>
ModelDisabled(model) == <<"Model \"", model.displayName, "\" is disabled">>

RouterCall(modelAlias, threw, historyRead, provider, modelId) ==
    [op |-> "generateResponse", alias |-> modelAlias, threw |-> threw,
     historyRead |-> historyRead, provider |-> provider, modelId |-> modelId]

\* generateResponse(conversationId, modelAlias): the model is looked up, then
\* the history is read, then the provider's driver is called with the model's
\* provider id.
GenerateResponse ==
    /\ \E modelAlias \in RouterAliases \cup {userPref} :
         LET model == GetModelByAlias(modelConfig, modelAlias)
         IN  lastCall' =
                IF model = NoModel
                THEN RouterCall(modelAlias, ModelNotFound(modelAlias), FALSE, "none", <<>>)
                ELSE IF ~model.enabled
                THEN RouterCall(modelAlias, ModelDisabled(model), FALSE, "none", <<>>)
                ELSE RouterCall(modelAlias, NotThrown, TRUE, model.provider, model.modelId)
    /\ UNCHANGED <<modelConfig, catalogCache, userPref, ctxPref, switchedTo>>
    /\ UNCHANGED <<handlerVars, loopVars, chatVars>>

\* handleMessage builds a ToolContext around the user row it has read.
StartContext ==
    /\ ctxPref' = userPref
    /\ switchedTo' = <<>>
    /\ lastCall' = [op |-> "getOrCreateUser"]
    /\ UNCHANGED <<modelConfig, catalogCache, userPref>>
    /\ UNCHANGED <<handlerVars, loopVars, chatVars>>

\* POST /models/:id of the admin API.
PostModel ==
    /\ \E u \in ModelUpdates :
         /\ modelConfig' = IF GetModelByAlias(modelConfig, u[1]) = NoModel
                           THEN modelConfig
                           ELSE UpdateModel(modelConfig, u[1], u[2])
         /\ lastCall' = [op |-> "updateModel", id |-> u[1], updates |-> u[2]]
    /\ UNCHANGED <<catalogCache, userPref, ctxPref, switchedTo>>
    /\ UNCHANGED <<handlerVars, loopVars, chatVars>>

\* The handler of list_models.
ListModels ==
    /\ \E data \in ListInputs :
         LET provider == data.provider
             includeDisabled == data.include_disabled
             models == GetAvailableModels(modelConfig)
             filtered == SelectSeq(models, LAMBDA model :
                             /\ (provider = "all" \/ model.provider = provider)
                             /\ (includeDisabled \/ model.enabled))
         IN  lastCall' =
                ToolCall("list_models",
                         ObjectInput(data),
                         NoModel,
                         [current_model |-> ctxPref,
                          models |-> [i \in 1..Len(filtered) |->
                                        [id |-> filtered[i].id,
                                         provider |-> filtered[i].provider,
                                         display_name |-> filtered[i].displayName,
                                         enabled |-> filtered[i].enabled]]],
                         FALSE)
    /\ UNCHANGED <<modelConfig, catalogCache, userPref, ctxPref, switchedTo>>
    /\ UNCHANGED <<handlerVars, loopVars, chatVars>>

SwitchToContextUnset(input, model) ==
    IF ~model.enabled
    THEN /\ lastCall' = ToolCall("switch_model", input, model, DisabledResult(model), TRUE)
         /\ UNCHANGED <<userPref, ctxPref, switchedTo>>
    ELSE /\ userPref' = model.id
         /\ ctxPref' = ctxPref
         /\ switchedTo' = model.id
         /\ lastCall' = ToolCall("switch_model", input, model, SwitchedResult(model), FALSE)
SwitchToBeforeEnabledCheck(input, model) ==
    /\ userPref' = model.id
    /\ ctxPref' = model.id
    /\ switchedTo' = model.id
    /\ lastCall' = IF ~model.enabled
                   THEN ToolCall("switch_model", input, model, DisabledResult(model), TRUE)
                   ELSE ToolCall("switch_model", input, model, SwitchedResult(model), FALSE)
\* The end of the handler of switch_model once a model has been found.
SwitchTo(input, model) ==
    IF ~model.enabled
    THEN /\ lastCall' = ToolCall("switch_model", input, model, DisabledResult(model), TRUE)
         /\ UNCHANGED <<userPref, ctxPref, switchedTo>>
    ELSE /\ userPref' = model.id
         /\ ctxPref' = model.id
         /\ switchedTo' = model.id
         /\ lastCall' = ToolCall("switch_model", input, model, SwitchedResult(model), FALSE)

\* The handler of switch_model.
SwitchModel ==
    /\ \E input \in SwitchInputs :
         LET normalized == Trim(ModelIdOf(input))
         IN  IF normalized = <<>>
             THEN /\ lastCall' = ToolCall("switch_model", input, NoModel,
                                          MissingModelField, TRUE)
                  /\ UNCHANGED <<modelConfig, catalogCache, userPref, ctxPref, switchedTo>>
             ELSE \E byProviderId \in ProviderIdMatches(modelConfig, normalized) :
                    LET registered == ResolveRegistered(modelConfig, normalized, byProviderId)
                    IN  IF registered # NoModel
                        THEN /\ SwitchTo(input, registered)
                             /\ UNCHANGED <<modelConfig, catalogCache>>
                        ELSE \E now \in Clock, r1 \in RefreshOutcomes, r2 \in RefreshOutcomes :
                               LET lookup == CatalogLookup(catalogCache, normalized,
                                                           now, r1, r2)
                                   created == Row(lookup.entry.id, "openrouter",
                                                  lookup.entry.id,
                                                  CatalogDisplayName(lookup.entry), TRUE)
                               IN  /\ catalogCache' = lookup.cache
                                   /\ IF lookup.entry # NoEntry
                                      THEN /\ modelConfig' = CreateModel(modelConfig, created)
                                           /\ SwitchTo(input, created)
                                      ELSE /\ lastCall' =
                                                ToolCall("switch_model", input, NoModel,
                                                    NotFoundResult(normalized,
                                                        GetAvailableModels(modelConfig)),
                                                    TRUE)
                                           /\ UNCHANGED <<modelConfig, userPref, ctxPref,
                                                          switchedTo>>
    /\ UNCHANGED <<handlerVars, loopVars, chatVars>>

ModelsInit ==
    /\ driver = "none"
    /\ hasCtx = TRUE
    /\ onToolResult = "none"
    /\ pc = "idle"
    /\ step = 0
    /\ callIdx = 0
    /\ response = NoResponse
    /\ messages = <<>>
    /\ toolResults = <<>>
    /\ inputTokens = 0
    /\ outputTokens = 0
    /\ result = NoResult
    /\ request = NoRequest
    /\ nInfer = 0
    /\ nResponses = 0
    /\ rounds = 0
    /\ reportedIn = 0
    /\ reportedOut = 0
    /\ allToolCalls = TRUE
    /\ roundLog = <<>>
    /\ lastExec = NoExec
    /\ modelConfig = DefaultModels
    /\ catalogCache \in {NoCacheFile, CacheFile(ToISOString(0), <<>>)}
    /\ userPref = Alias_op
    /\ ctxPref = Alias_op
    /\ switchedTo = <<>>
    /\ lastCall = NoCall
    /\ ChatAtStart

ModelsNext ==
    \/ GenerateResponse
    \/ StartContext
    \/ PostModel
    \/ ListModels
    \/ SwitchModel

SpecModels == ModelsInit /\ [][ModelsNext]_vars

(***************************************************************************)
(* The catalog operations called one after another: every kind of cache    *)
(* file, both sides of the age limit, every outcome of the network request *)
(***************************************************************************)
\* The catalog of the cache test
TestCatalog ==
    <<[id |-> <<"o", "p", "e", "n", "a", "i", "/", "g", "p", "t", "-", "4", "o", "-", "m", "i", "n", "i">>, name |-> <<"G", "P", "T", "-", "4", "o", " ", "m", "i", "n", "i">>,
       description |-> <<"f", "a", "s", "t", " ", "v", "i", "s", "i", "o", "n", " ", "m", "o", "d", "e", "l">>, created |-> 1000],
      [id |-> <<"a", "n", "t", "h", "r", "o", "p", "i", "c", "/", "c", "l", "a", "u", "d", "e", "-", "3">>, name |-> <<"C", "l", "a", "u", "d", "e", " ", "3">>,
       description |-> <<"s", "t", "r", "o", "n", "g", " ", "r", "e", "a", "s", "o", "n", "i", "n", "g", " ", "m", "o", "d", "e", "l">>, created |-> 2000],
      [id |-> <<"g", "o", "o", "g", "l", "e", "/", "g", "e", "m", "i", "n", "i">>, name |-> <<"G", "e", "m", "i", "n", "i">>,
       description |-> <<"m", "u", "l", "t", "i", "m", "o", "d", "a", "l", " ", "m", "o", "d", "e", "l">>, created |-> 1500]>>

\* Entries without a timestamp, with the timestamp under created_at or
\* updated, and with equal timestamps.
MixedCatalog ==
    <<[id |-> <<"x", "/", "o", "l", "d">>],
      [id |-> <<"x", "/", "t", "i", "e", "1">>, created_at |-> 1500],
      [id |-> <<"x", "/", "t", "i", "e", "2">>, created |-> 1500, created_at |-> 9000],
      [id |-> <<"x", "/", "n", "e", "w">>, name |-> <<"N", "e", "w", " ", "G", "P", "T">>, updated |-> 2500]>>

\* More entries than the largest page.
BigCatalog ==
    [i \in 1..27 |->
        [id |-> <<"m", "/", DigitChars[(i \div 10) + 1], DigitChars[(i % 10) + 1]>>,
         created |-> 3000 + i]]

Query_gpt == <<"g", "p", "t">>
Query_GPT_mini == <<" ", "G", "P", "T", " ", " ", "m", "i", "n", "i", " ">>
Query_model == <<"m", "o", "d", "e", "l">>
Query_none == <<"z", "z", "z">>
Query_blank == <<" ", " ">>

NetworkOutcomes ==
    {NoApiKey, HttpFailure, MissingData, Fetched(RemoteCatalog), Fetched(TestCatalog)}

InitialCacheFiles ==
    {NoCacheFile, NotJsonFile, JsonNullFile,
     ModelsNotArrayFile(ToISOString(0)),
     FetchedAtNotStringFile(TestCatalog),
     CacheFile(NotADate, TestCatalog),
     CacheFile(ToISOString(0), TestCatalog),
     CacheFile(ToISOString(0), MixedCatalog),
     CacheFile(ToISOString(0), BigCatalog)}

GetOptions ==
    {NoOptions, [refresh |-> TRUE], [refresh |-> FALSE],
     [maxAgeMs |-> 0], [maxAgeMs |-> 1],
     [refresh |-> FALSE, maxAgeMs |-> MaxSafeInteger]}

RefreshInputs == {NoOptions, [force |-> TRUE], [force |-> FALSE]}

SearchInputs ==
    {NoOptions,
     [sort |-> "recent", limit |-> 2],
     [sort |-> "relevance"],
     [refresh |-> TRUE, limit |-> 30],
     [query |-> Query_gpt],
     [query |-> Query_GPT_mini, limit |-> 1],
     [query |-> Query_model, sort |-> "recent", limit |-> 2],
     [query |-> Query_model, sort |-> "relevance"],
     [query |-> Query_none],
     [query |-> Query_blank, limit |-> 3]}
    \cup {[limit |-> n] : n \in {-3, 0, 1, 25, 26, 100}}

CatalogCall(op, input, now, net, before, out) ==
    [op |-> op, input |-> input, now |-> now, net |-> net, before |-> before,
     out |-> out]

\* await getOpenRouterModels(options)
GetModels ==
    /\ lastCall = NoCall
    /\ \E options \in GetOptions, now \in Clock, net \in NetworkOutcomes :
         LET out == GetOpenRouterModels(catalogCache, options, now, net)
         IN  /\ catalogCache' = out.file
             /\ lastCall' = CatalogCall("getOpenRouterModels", options, now, net,
                                        catalogCache, out)
    /\ UNCHANGED <<modelConfig, userPref, ctxPref, switchedTo>>
    /\ UNCHANGED <<handlerVars, loopVars, chatVars>>

\* The handler of openrouter_refresh_models: force = data.force ?? true
RefreshHandler(file, input, now, net) ==
    IF OptionOr(input, "force", TRUE)
    THEN RefreshOpenRouterModels(file, now, net)
    ELSE GetOpenRouterModels(file, NoOptions, now, net)

RefreshedResult(cache) ==
    [ok |-> TRUE, fetched_at |-> cache.fetchedAt, model_count |-> Len(cache.models)]

\* What the handler ends in, as executeTool sees it.
HandlerOutcome(out, content) ==
    IF out.threw THEN Thrown(out.error, TRUE) ELSE Returned(content, FALSE)

\* executeTool("openrouter_refresh_models", input, context)
RefreshTool ==
    /\ lastCall = NoCall
    /\ \E input \in RefreshInputs, now \in Clock, net \in NetworkOutcomes :
         LET out == RefreshHandler(catalogCache, input, now, net)
             h == HandlerOutcome(out, RefreshedResult(out.cache))
         IN  /\ catalogCache' = out.file
             /\ lastCall' =
                  CatalogCall("openrouter_refresh_models", input, now, net,
                              catalogCache, out)
                  @@ [result |-> ExecuteTool("openrouter_refresh_models", input, h,
                                             onToolResult)]
    /\ UNCHANGED <<modelConfig, userPref, ctxPref, switchedTo>>
    /\ UNCHANGED <<handlerVars, loopVars, chatVars>>

\* executeTool("openrouter_search_models", input, context)
SearchTool ==
    /\ lastCall = NoCall
    /\ \E input \in SearchInputs, now \in Clock, net \in NetworkOutcomes :
         LET out == SearchOpenRouterModels(catalogCache, input, now, net)
             h == HandlerOutcome(out, out.result)
         IN  /\ catalogCache' = out.file
             /\ lastCall' =
                  CatalogCall("openrouter_search_models", input, now, net,
                              catalogCache, out)
                  @@ [result |-> ExecuteTool("openrouter_search_models", input, h,
                                             onToolResult)]
    /\ UNCHANGED <<modelConfig, userPref, ctxPref, switchedTo>>
    /\ UNCHANGED <<handlerVars, loopVars, chatVars>>

CatalogInit ==
    /\ driver = "none"
    /\ hasCtx = TRUE
    /\ onToolResult \in Callbacks
    /\ pc = "idle"
    /\ step = 0
    /\ callIdx = 0
    /\ response = NoResponse
    /\ messages = <<>>
    /\ toolResults = <<>>
    /\ inputTokens = 0
    /\ outputTokens = 0
    /\ result = NoResult
    /\ request = NoRequest
    /\ nInfer = 0
    /\ nResponses = 0
    /\ rounds = 0
    /\ reportedIn = 0
    /\ reportedOut = 0
    /\ allToolCalls = TRUE
    /\ roundLog = <<>>
    /\ lastExec = NoExec
    /\ modelConfig = DefaultModels
    /\ catalogCache \in InitialCacheFiles
    /\ userPref = Alias_op
    /\ ctxPref = Alias_op
    /\ switchedTo = <<>>
    /\ lastCall = NoCall
    /\ ChatAtStart

\* executeTool("switch_model", input, context) by the same caller
CatalogSwitchModel ==
    /\ lastCall = NoCall
    /\ SwitchModel

\* The caller has taken the value its call returned, or the error it threw,
\* and goes on to its next call.
TakeResult ==
    /\ lastCall # NoCall
    /\ lastCall' = NoCall
    /\ UNCHANGED <<modelConfig, catalogCache, userPref, ctxPref, switchedTo>>
    /\ UNCHANGED <<handlerVars, loopVars, chatVars>>

CatalogNext ==
    \/ GetModels
    \/ RefreshTool
    \/ SearchTool
    \/ CatalogSwitchModel
    \/ TakeResult

SpecCatalog == CatalogInit /\ [][CatalogNext]_vars

(***************************************************************************)
(* Attachments (src/services/attachments.ts) and their conversion to       *)
(* provider content (src/ai/claude.ts, src/ai/openrouter.ts)               *)
(***************************************************************************)
SupportedImageTypes == {"image/jpeg", "image/png", "image/gif", "image/webp"}
TextFileTypes == {"text/plain", "text/markdown", "text/csv", "application/json"}

\* getAttachmentType(mimeType)
GetAttachmentType(mimeType) ==
    IF mimeType \in SupportedImageTypes THEN "image"
    ELSE IF mimeType \in TextFileTypes THEN "text"
    ELSE IF mimeType = "application/pdf" THEN "document"
    ELSE "other"

\* An attachment; data null is the data field left out.
Attachment(id, type, mimeType, filename) ==
    [id |-> id, type |-> type, mimeType |-> mimeType, filename |-> filename]
AttachmentWithData(id, type, mimeType, filename, data) ==
    [id |-> id, type |-> type, mimeType |-> mimeType, filename |-> filename,
     data |-> data]

\* What downloading a file gives: an error, or the bytes with their length.
DownloadFailed == [ok |-> FALSE]
Downloaded(bytes, length) == [ok |-> TRUE, bytes |-> bytes, length |-> length]

\* Buffer.from(buffer).toString("base64")
Base64(bytes) == IF bytes = "" THEN "" ELSE "base64(" \o bytes \o ")"
\* new TextDecoder().decode(buffer)
Decode(bytes) == IF bytes = "" THEN "" ELSE "text(" \o bytes \o ")"

MaxChars == 50000
\* text.length > maxChars ? text.slice(0, maxChars) + "\n... [truncated]" : text
TruncatedText(download) ==
    IF download.length > MaxChars
    THEN Decode(download.bytes) \o "\n... [truncated]"
    ELSE Decode(download.bytes)

FileName(file, default) == IF "name" \in DOMAIN file THEN file.name ELSE default

\* One iteration of the loop of processSlackFiles: the attachments pushed for
\* one upload, an upload being a Slack file and what its download gives.
ProcessSlackFile(upload) ==
    LET file == upload.file
        attachmentType == GetAttachmentType(file.mimetype)
    IN  IF "id" \notin DOMAIN file \/ "mimetype" \notin DOMAIN file THEN <<>>
        ELSE IF "url" \notin DOMAIN file THEN <<>>
        ELSE IF attachmentType \in {"image", "text"} /\ ~upload.download.ok
        THEN <<Attachment(file.id, "other", file.mimetype, FileName(file, "file"))>>
        ELSE IF attachmentType = "image"
        THEN <<AttachmentWithData(file.id, "image", file.mimetype,
                                  FileName(file, "image"),
                                  Base64(upload.download.bytes))>>
        ELSE IF attachmentType = "text"
        THEN <<AttachmentWithData(file.id, "text", file.mimetype,
                                  FileName(file, "file.txt"),
                                  TruncatedText(upload.download))>>
        ELSE <<Attachment(file.id, attachmentType, file.mimetype,
                          FileName(file, "file"))>>

\* processSlackFiles(files, client)
RECURSIVE ProcessSlackFiles(_)
ProcessSlackFiles(uploads) ==
    IF uploads = <<>> THEN <<>>
    ELSE ProcessSlackFile(uploads[1]) \o ProcessSlackFiles(Tail(uploads))

\* attachment.data as a condition: neither null nor the empty string
HasData(attachment) == "data" \in DOMAIN attachment /\ attachment.data # ""

\* The value an adapter returns: the text itself, or a list of blocks.
TextContent(text) == [kind |-> "string", text |-> text]
BlockContent(blocks) == [kind |-> "blocks", blocks |-> blocks]

TextBlock(text) == [type |-> "text", text |-> text]
FileBlock(attachment) ==
    TextBlock("[File: " \o attachment.filename \o "]\n" \o attachment.data)
AnalyzePrompt == "Please analyze the attached content."

\* mediaType of attachmentsToClaudeContent
MediaType(mimeType) ==
    IF mimeType \in {"image/png", "image/gif", "image/webp"} THEN mimeType
    ELSE "image/jpeg"
ClaudeImageBlock(attachment) ==
    [type |-> "image",
     source |-> [type |-> "base64", media_type |-> MediaType(attachment.mimeType),
                 data |-> attachment.data]]
OpenRouterImagePart(attachment) ==
    [type |-> "image_url",
     image_url |-> [url |-> "data:" \o attachment.mimeType \o ";base64,"
                            \o attachment.data]]

\* One of the two for-loops of an adapter: the blocks pushed, in the order of
\* the list, for the attachments of the given type that have data.
RECURSIVE PushBlocks(_, _, _)
PushBlocks(attachments, type, provider) ==
    IF attachments = <<>> THEN <<>>
    ELSE (IF attachments[1].type = type /\ HasData(attachments[1])
          THEN <<IF type = "text" THEN FileBlock(attachments[1])
                 ELSE IF provider = "claude" THEN ClaudeImageBlock(attachments[1])
                 ELSE OpenRouterImagePart(attachments[1])>>
          ELSE <<>>)
         \o PushBlocks(Tail(attachments), type, provider)

MainTextAlwaysPushed(text, blocks) ==
    <<TextBlock(IF text # "" THEN text ELSE AnalyzePrompt)>>
\* The last step of an adapter: the main text, or the prompt when there is
\* none and blocks have been pushed.
MainText(text, blocks) ==
    IF text # "" THEN <<TextBlock(text)>>
    ELSE IF Len(blocks) > 0 THEN <<TextBlock(AnalyzePrompt)>>
    ELSE <<>>

AttachmentsToContentTextFirst(text, attachments, provider) ==
    IF Len(attachments) = 0 THEN TextContent(text)
    ELSE BlockContent(MainText(text, PushBlocks(attachments, "image", provider))
                      \o PushBlocks(attachments, "text", provider)
                      \o PushBlocks(attachments, "image", provider))
\* attachmentsToClaudeContent(text, attachments) and
\* attachmentsToOpenRouterContent(text, attachments), which differ in the
\* image block only
AttachmentsToContent(text, attachments, provider) ==
    IF Len(attachments) = 0 THEN TextContent(text)
    ELSE LET pushed == PushBlocks(attachments, "image", provider)
                       \o PushBlocks(attachments, "text", provider)
         IN  BlockContent(pushed \o MainText(text, pushed))

(***************************************************************************)
(* One stored message converted by either adapter                          *)
(***************************************************************************)
MaxFiles == 3       \* most files uploaded with one message

PngFile == [id |-> "F1", name |-> "a.png", mimetype |-> "image/png", url |-> "u1"]
BmpFile == [id |-> "F2", name |-> "b.bmp", mimetype |-> "image/bmp", url |-> "u2"]
TextFile == [id |-> "F3", mimetype |-> "text/plain", url |-> "u3"]
PdfFile == [id |-> "F4", name |-> "d.pdf", mimetype |-> "application/pdf", url |-> "u4"]
NoUrlFile == [id |-> "F5", name |-> "e.txt", mimetype |-> "text/plain"]

Upload(file, download) == [file |-> file, download |-> download]
Uploads ==
    {Upload(PngFile, d) : d \in {DownloadFailed, Downloaded("", 0), Downloaded("png", 3)}}
    \cup {Upload(TextFile, d) :
            d \in {DownloadFailed, Downloaded("", 0), Downloaded("abc", 3),
                   Downloaded("long", MaxChars + 1)}}
    \cup {Upload(f, DownloadFailed) : f \in {BmpFile, PdfFile, NoUrlFile}}

MessageTexts == {"", "look at this"}

UploadLists == UNION {[1..n -> Uploads] : n \in 0..MaxFiles}

\* The user message handleMessage stores and getMessages returns.
StoredMessage(text, attachments) ==
    [op |-> "message", text |-> text, attachments |-> attachments]
Converted(provider, message, content) ==
    [op |-> "converted", provider |-> provider, text |-> message.text,
     attachments |-> message.attachments, content |-> content]

ContentInit ==
    /\ driver = "none"
    /\ hasCtx = TRUE
    /\ onToolResult = "none"
    /\ pc = "idle"
    /\ step = 0
    /\ callIdx = 0
    /\ response = NoResponse
    /\ messages = <<>>
    /\ toolResults = <<>>
    /\ inputTokens = 0
    /\ outputTokens = 0
    /\ result = NoResult
    /\ request = NoRequest
    /\ nInfer = 0
    /\ nResponses = 0
    /\ rounds = 0
    /\ reportedIn = 0
    /\ reportedOut = 0
    /\ allToolCalls = TRUE
    /\ roundLog = <<>>
    /\ lastExec = NoExec
    /\ modelConfig = DefaultModels
    /\ catalogCache = NoCacheFile
    /\ userPref = Alias_op
    /\ ctxPref = Alias_op
    /\ switchedTo = <<>>
    /\ ChatAtStart
    /\ \E text \in MessageTexts, uploads \in UploadLists :
          /\ text # "" \/ Len(uploads) > 0
          /\ lastCall = StoredMessage(text, ProcessSlackFiles(uploads))

\* attachmentsToClaudeContent(m.content, m.attachments)
ConvertClaude ==
    /\ lastCall.op = "message"
    /\ lastCall' = Converted("claude", lastCall,
                       AttachmentsToContent(lastCall.text, lastCall.attachments, "claude"))
    /\ UNCHANGED <<modelConfig, catalogCache, userPref, ctxPref, switchedTo>>
    /\ UNCHANGED <<handlerVars, loopVars, chatVars>>

\* attachmentsToOpenRouterContent(m.content, m.attachments)
ConvertOpenRouter ==
    /\ lastCall.op = "message"
    /\ lastCall' = Converted("openrouter", lastCall,
                       AttachmentsToContent(lastCall.text, lastCall.attachments,
                                            "openrouter"))
    /\ UNCHANGED <<modelConfig, catalogCache, userPref, ctxPref, switchedTo>>
    /\ UNCHANGED <<handlerVars, loopVars, chatVars>>

ContentNext ==
    \/ ConvertClaude
    \/ ConvertOpenRouter

SpecContent == ContentInit /\ [][ContentNext]_vars

(***************************************************************************)
(* The conversation store under getOrCreateConversation and the            *)
(* reset_conversation tool, for two users, direct messages and one thread  *)
(***************************************************************************)
MaxConversations == 4       \* most rows of table conversations

ThreadIds == {NoThread, "1700000000.000100"}

ConversationParams(userId, threadTs) ==
    [userId |-> userId, channelId |-> DirectChannel, threadTs |-> threadTs,
     model |-> Alias_op]

ResetResult == [ok |-> TRUE]

ConversationsInit ==
    /\ driver = "none"
    /\ hasCtx = TRUE
    /\ onToolResult = "none"
    /\ pc = "idle"
    /\ step = 0
    /\ callIdx = 0
    /\ response = NoResponse
    /\ messages = <<>>
    /\ toolResults = <<>>
    /\ inputTokens = 0
    /\ outputTokens = 0
    /\ result = NoResult
    /\ request = NoRequest
    /\ nInfer = 0
    /\ nResponses = 0
    /\ rounds = 0
    /\ reportedIn = 0
    /\ reportedOut = 0
    /\ allToolCalls = TRUE
    /\ roundLog = <<>>
    /\ lastExec = NoExec
    /\ modelConfig = DefaultModels
    /\ catalogCache = NoCacheFile
    /\ userPref = Alias_op
    /\ ctxPref = Alias_op
    /\ switchedTo = <<>>
    /\ lastCall = NoCall
    /\ toolDefinitions = ToolDefinitions
    /\ conversations = <<>>
    /\ storedMessages = <<>>
    /\ history = <<>>
    /\ HandlersAtStart

\* await getOrCreateConversation({ userId, channelId, threadTs, model })
GetOrCreate ==
    /\ \E userId \in UserIds, threadTs \in ThreadIds :
         LET params == ConversationParams(userId, threadTs)
             out == GetOrCreateConversation(conversations, params)
         IN  /\ Len(out.table) <= MaxConversations
             /\ conversations' = out.table
             /\ lastCall' = [op |-> "getOrCreateConversation", params |-> params,
                             before |-> conversations, id |-> out.id,
                             created |-> out.created]
    /\ UNCHANGED <<modelConfig, catalogCache, userPref, ctxPref, switchedTo>>
    /\ UNCHANGED <<handlerVars, loopVars, toolDefinitions, storedMessages, history>>

\* The handler of reset_conversation for the user of the ToolContext.
ResetConversation ==
    /\ \E userId \in UserIds :
         /\ conversations' = ResetUserConversation(conversations, userId)
         /\ lastCall' = [op |-> "reset_conversation", userId |-> userId,
                         before |-> conversations, content |-> ResetResult,
                         isError |-> FALSE]
    /\ UNCHANGED <<modelConfig, catalogCache, userPref, ctxPref, switchedTo>>
    /\ UNCHANGED <<handlerVars, loopVars, toolDefinitions, storedMessages, history>>

ConversationsNext ==
    \/ GetOrCreate
    \/ ResetConversation

SpecConversations == ConversationsInit /\ [][ConversationsNext]_vars

(***************************************************************************)
(* Concurrent invocations on the catalog cache file.  readFileSync and     *)
(* writeFileSync run to completion; an invocation gives way to the others  *)
(* only at the awaits of refreshOpenRouterModels (fetch, response.json)    *)
(***************************************************************************)
MaxInvocations == 3      \* invocations in progress at the same time

InvocationIds == 1..MaxInvocations

\* What the request of invocation h fetches: a catalog of its own.
PayloadOf(h) == <<[id |-> <<"m", "/", DigitChars[h + 1]>>, created |-> 1000 + h]>>

IdleInvocation ==
    [pc |-> "idle", op |-> "", read |-> NoSnapshot, source |-> "none",
     returned |-> NoSnapshot, wrote |-> NoSnapshot]

RaceInit ==
    /\ driver = "none"
    /\ hasCtx = TRUE
    /\ onToolResult = "none"
    /\ pc = "idle"
    /\ step = 0
    /\ callIdx = 0
    /\ response = NoResponse
    /\ messages = <<>>
    /\ toolResults = <<>>
    /\ inputTokens = 0
    /\ outputTokens = 0
    /\ result = NoResult
    /\ request = NoRequest
    /\ nInfer = 0
    /\ nResponses = 0
    /\ rounds = 0
    /\ reportedIn = 0
    /\ reportedOut = 0
    /\ allToolCalls = TRUE
    /\ roundLog = <<>>
    /\ lastExec = NoExec
    /\ modelConfig = DefaultModels
    /\ catalogCache \in InitialCacheFiles
    /\ userPref = Alias_op
    /\ ctxPref = Alias_op
    /\ switchedTo = <<>>
    /\ lastCall = NoCall
    /\ toolDefinitions = ToolDefinitions
    /\ conversations = <<>>
    /\ storedMessages = <<>>
    /\ history = <<>>
    /\ handlers = [h \in InvocationIds |-> IdleInvocation]
    /\ users = [id \in UserIds |-> Alias_op]
    /\ slack = <<>>
    /\ auth = [pendingStates |-> {}, sessions |-> {}]

\* getOpenRouterModels(options) up to its return of the cached snapshot or to
\* the await of fetch inside refreshOpenRouterModels().
RaceGetModels(h) ==
    /\ handlers[h].pc = "idle"
    /\ \E options \in {NoOptions, [refresh |-> TRUE]}, now \in Clock :
         LET maxAgeMs == OptionOr(options, "maxAgeMs", DefaultMaxAgeMs)
             cached == ReadCache(catalogCache)
         IN  handlers' = [handlers EXCEPT ![h] =
                IF /\ ~OptionOr(options, "refresh", FALSE)
                   /\ cached # NoSnapshot
                   /\ IsCacheFresh(cached, maxAgeMs, now)
                THEN [@ EXCEPT !.pc = "done", !.op = "getOpenRouterModels",
                               !.read = cached, !.source = "cache",
                               !.returned = cached]
                ELSE [@ EXCEPT !.pc = "fetching", !.op = "getOpenRouterModels",
                               !.read = cached]]
    /\ UNCHANGED <<loopVars, storeVars, chatVars, users, slack, auth>>

\* refreshOpenRouterModels() called by a tool, up to the await of fetch.
RaceRefresh(h) ==
    /\ handlers[h].pc = "idle"
    /\ handlers' = [handlers EXCEPT ![h] =
                       [@ EXCEPT !.pc = "fetching", !.op = "refreshOpenRouterModels"]]
    /\ UNCHANGED <<loopVars, storeVars, chatVars, users, slack, auth>>

\* The request of invocation h is answered: refreshOpenRouterModels() goes on
\* from its await to a throw or to writeCache and its return.
RaceFetched(h) ==
    /\ handlers[h].pc = "fetching"
    /\ \E net \in {HttpFailure, MissingData, Fetched(PayloadOf(h))}, now \in Clock :
         LET out == RefreshOpenRouterModels(catalogCache, now, net)
         IN  /\ catalogCache' = out.file
             /\ IF out.threw
                THEN /\ handlers' = [handlers EXCEPT ![h] = [@ EXCEPT !.pc = "threw"]]
                     /\ UNCHANGED lastCall
                ELSE /\ handlers' = [handlers EXCEPT ![h] =
                            [@ EXCEPT !.pc = "done", !.source = out.source,
                                      !.returned = out.cache, !.wrote = out.cache]]
                     /\ lastCall' = [op |-> "writeCache", invocation |-> h,
                                     cache |-> out.cache]
    /\ UNCHANGED <<modelConfig, userPref, ctxPref, switchedTo>>
    /\ UNCHANGED <<loopVars, chatVars, users, slack, auth>>

RaceNext ==
    \E h \in InvocationIds :
        \/ RaceGetModels(h)
        \/ RaceRefresh(h)
        \/ RaceFetched(h)

SpecCacheRace == RaceInit /\ [][RaceNext]_vars

(***************************************************************************)
(* Concurrent handleMessage invocations and their ToolContexts             *)
(***************************************************************************)
MaxHandlers == 2         \* handleMessage invocations in progress at the same time

HandlerIds == 1..MaxHandlers

\* No driver is being followed step by step.
LoopIdle ==
    /\ driver = "none"
    /\ hasCtx = TRUE
    /\ onToolResult = "none"
    /\ pc = "idle"
    /\ step = 0
    /\ callIdx = 0
    /\ response = NoResponse
    /\ messages = <<>>
    /\ toolResults = <<>>
    /\ inputTokens = 0
    /\ outputTokens = 0
    /\ result = NoResult
    /\ request = NoRequest
    /\ nInfer = 0
    /\ nResponses = 0
    /\ rounds = 0
    /\ reportedIn = 0
    /\ reportedOut = 0
    /\ allToolCalls = TRUE
    /\ roundLog = <<>>
    /\ lastExec = NoExec

StoresIdle ==
    /\ modelConfig = DefaultModels
    /\ catalogCache = NoCacheFile
    /\ userPref = Alias_op
    /\ ctxPref = Alias_op
    /\ switchedTo = <<>>
    /\ lastCall = NoCall
    /\ toolDefinitions = ToolDefinitions
    /\ conversations = <<>>
    /\ storedMessages = <<>>
    /\ history = <<>>

NoUser == [id |-> ""]

\* getOrCreateUser(params) for a user the table has: the row, as a new object.
GetOrCreateUser(table, id) == [id |-> id, preferredModel |-> table[id]]

\* updateUserModel(userId, modelId)
UpdateUserModel(table, userId, modelId) == [table EXCEPT ![userId] = modelId]

\* switched: the model of the last switch_model of the invocation, once there
\* has been one.
IdleHandler == [pc |-> "idle", user |-> NoUser, model |-> NoModel, switched |-> <<>>]

SwitchTargets == {Alias_k2, Alias_op}

ContextsInit ==
    /\ LoopIdle
    /\ StoresIdle
    /\ handlers = [h \in HandlerIds |-> IdleHandler]
    /\ users \in [UserIds -> SwitchTargets]
    /\ slack = <<>>
    /\ auth = [pendingStates |-> {}, sessions |-> {}]

\* handleMessage up to generateResponse(conversation.id, user.preferredModel,
\* { user, conversation }): the ToolContext holds the object getOrCreateUser
\* returned to this invocation.
ReceiveMessage(h) ==
    /\ handlers[h].pc = "idle"
    /\ \E userId \in UserIds :
         handlers' = [handlers EXCEPT ![h] =
                         [pc |-> "tools", user |-> GetOrCreateUser(users, userId),
                          model |-> NoModel, switched |-> <<>>]]
    /\ lastCall' = NoCall
    /\ UNCHANGED <<modelConfig, catalogCache, userPref, ctxPref, switchedTo>>
    /\ UNCHANGED <<loopVars, chatVars, users, slack, auth>>

\* The handler of list_models run by the driver of invocation h.
ContextListModels(h) ==
    /\ handlers[h].pc = "tools"
    /\ lastCall' = [op |-> "list_models",
                    current_model |-> handlers[h].user.preferredModel,
                    persisted |-> users[handlers[h].user.id]]
    /\ UNCHANGED <<modelConfig, catalogCache, userPref, ctxPref, switchedTo>>
    /\ UNCHANGED <<loopVars, chatVars, handlers, users, slack, auth>>

\* The handler of switch_model in invocation h, for an enabled model, up to
\* the end of await updateUserModel(context.user.id, model.id).
ContextSwitchPersist(h) ==
    /\ handlers[h].pc = "tools"
    /\ \E alias \in SwitchTargets :
         LET model == GetModelByAlias(modelConfig, alias)
         IN  /\ model # NoModel
             /\ model.enabled
             /\ users' = UpdateUserModel(users, handlers[h].user.id, model.id)
             /\ handlers' = [handlers EXCEPT ![h] =
                                [@ EXCEPT !.pc = "switching", !.model = model]]
    /\ lastCall' = NoCall
    /\ UNCHANGED <<modelConfig, catalogCache, userPref, ctxPref, switchedTo>>
    /\ UNCHANGED <<loopVars, chatVars, slack, auth>>

ContextSwitchSetShared(h) ==
    /\ handlers[h].pc = "switching"
    /\ handlers' = [g \in DOMAIN handlers |->
                      IF g = h
                      THEN [pc |-> "tools",
                            user |-> [handlers[h].user EXCEPT
                                         !.preferredModel = handlers[h].model.id],
                            model |-> NoModel,
                            switched |-> <<handlers[h].model.id>>]
                      ELSE IF handlers[g].user.id = handlers[h].user.id
                      THEN [handlers[g] EXCEPT !.user.preferredModel = handlers[h].model.id]
                      ELSE handlers[g]]
    /\ lastCall' = [op |-> "switch_model", invocation |-> h,
                    model |-> handlers[h].model.id]
    /\ UNCHANGED <<modelConfig, catalogCache, userPref, ctxPref, switchedTo>>
    /\ UNCHANGED <<loopVars, chatVars, users, slack, auth>>
\* context.user.preferredModel = model.id, and the handler returns.
ContextSwitchSet(h) ==
    /\ handlers[h].pc = "switching"
    /\ handlers' = [handlers EXCEPT ![h] =
                       [pc |-> "tools",
                        user |-> [handlers[h].user EXCEPT
                                     !.preferredModel = handlers[h].model.id],
                        model |-> NoModel,
                        switched |-> <<handlers[h].model.id>>]]
    /\ lastCall' = [op |-> "switch_model", invocation |-> h,
                    model |-> handlers[h].model.id]
    /\ UNCHANGED <<modelConfig, catalogCache, userPref, ctxPref, switchedTo>>
    /\ UNCHANGED <<loopVars, chatVars, users, slack, auth>>

\* A message that is the command `use <model>`: handleUseCommand for an
\* enabled model.  The user object of this message is not seen by any tool.
UseCommand ==
    /\ \E userId \in UserIds, alias \in SwitchTargets :
         LET user == GetOrCreateUser(users, userId)
             model == GetModelByAlias(modelConfig, alias)
         IN  /\ model # NoModel
             /\ model.enabled
             /\ users' = UpdateUserModel(users, user.id, model.id)
    /\ lastCall' = NoCall
    /\ UNCHANGED <<modelConfig, catalogCache, userPref, ctxPref, switchedTo>>
    /\ UNCHANGED <<loopVars, chatVars, handlers, slack, auth>>

\* generateResponse returns to handleMessage, which ends.
HandlerReturns(h) ==
    /\ handlers[h].pc = "tools"
    /\ handlers' = [handlers EXCEPT ![h] = IdleHandler]
    /\ lastCall' = NoCall
    /\ UNCHANGED <<modelConfig, catalogCache, userPref, ctxPref, switchedTo>>
    /\ UNCHANGED <<loopVars, chatVars, users, slack, auth>>

InferenceFailsRollsBack(h) ==
    /\ handlers[h].pc = "tools"
    /\ handlers' = [handlers EXCEPT ![h] = [@ EXCEPT !.pc = "threw"]]
    /\ users' = IF handlers[h].switched = <<>> THEN users
                ELSE UpdateUserModel(users, handlers[h].user.id, Alias_op)
    /\ lastCall' = [op |-> "inference failed", invocation |-> h]
    /\ UNCHANGED <<modelConfig, catalogCache, userPref, ctxPref, switchedTo>>
    /\ UNCHANGED <<loopVars, chatVars, slack, auth>>
\* An inference call of the driver of invocation h fails: the driver throws
\* out of generateResponse into the catch of handleMessage.
InferenceFails(h) ==
    /\ handlers[h].pc = "tools"
    /\ handlers' = [handlers EXCEPT ![h] = [@ EXCEPT !.pc = "threw"]]
    /\ users' = users
    /\ lastCall' = [op |-> "inference failed", invocation |-> h]
    /\ UNCHANGED <<modelConfig, catalogCache, userPref, ctxPref, switchedTo>>
    /\ UNCHANGED <<loopVars, chatVars, slack, auth>>

ContextsNext ==
    \/ UseCommand
    \/ \E h \in HandlerIds :
          \/ ReceiveMessage(h)
          \/ ContextListModels(h)
          \/ ContextSwitchPersist(h)
          \/ ContextSwitchSet(h)
          \/ HandlerReturns(h)
          \/ InferenceFails(h)

SpecContexts == ContextsInit /\ [][ContextsNext]_vars

(***************************************************************************)
(* The two drivers side by side on one sequence of provider responses,     *)
(* each response reduced to "tool" (it holds tool calls) or "text", with   *)
(* a ToolContext supplied                                                  *)
(***************************************************************************)
FeedLen == 4             \* responses the provider has ready

Feeds == [1..FeedLen -> {"tool", "text"}]

LoopAtStart == [pc |-> "start", step |-> 0, calls |-> 0, rounds |-> 0, returned |-> "none"]

BothInit ==
    /\ LoopIdle
    /\ StoresIdle
    /\ \E feed \in Feeds :
         handlers = [feed |-> feed, openrouter |-> LoopAtStart, claude |-> LoopAtStart]
    /\ users = [id \in UserIds |-> Alias_op]
    /\ slack = <<>>
    /\ auth = [pendingStates |-> {}, sessions |-> {}]

\* generateOpenRouterResponse: the loop is entered.
BothOR_Enter ==
    /\ handlers.openrouter.pc = "start"
    /\ handlers' = [handlers EXCEPT !.openrouter.pc = "loop"]
    /\ UNCHANGED <<loopVars, storeVars, chatVars, users, slack, auth>>

\* One iteration of for (let step = 0; step < 3; step++): the request, then
\* the return of the answer or a round of tools; past the loop, the fixed
\* message.
BothOR_Iteration ==
    /\ handlers.openrouter.pc = "loop"
    /\ LET d == handlers.openrouter
           calls == d.calls + 1
       IN  handlers' = [handlers EXCEPT !.openrouter =
              IF d.step >= OR_MaxSteps
              THEN [d EXCEPT !.pc = "done", !.returned = "fallback message"]
              ELSE IF handlers.feed[calls] = "text"
              THEN [d EXCEPT !.pc = "done", !.calls = calls, !.returned = "final text"]
              ELSE [d EXCEPT !.calls = calls, !.rounds = d.rounds + 1,
                             !.step = d.step + 1]]
    /\ UNCHANGED <<loopVars, storeVars, chatVars, users, slack, auth>>

\* generateClaudeResponse: the request made before the loop.
BothCL_Enter ==
    /\ handlers.claude.pc = "start"
    /\ handlers' = [handlers EXCEPT !.claude.pc = "loop", !.claude.calls = 1]
    /\ UNCHANGED <<loopVars, storeVars, chatVars, users, slack, auth>>

\* One iteration of for (let step = 0; step < 3; step++): the return of the
\* answer, or a round of tools and the next request; past the loop, the text
\* of the last response.
BothCL_Iteration ==
    /\ handlers.claude.pc = "loop"
    /\ LET d == handlers.claude
           last == handlers.feed[d.calls]
       IN  handlers' = [handlers EXCEPT !.claude =
              IF d.step >= CL_MaxSteps
              THEN [d EXCEPT !.pc = "done",
                             !.returned = IF last = "text" THEN "final text"
                                          ELSE "text of a tool response"]
              ELSE IF last = "text"
              THEN [d EXCEPT !.pc = "done", !.returned = "final text"]
              ELSE [d EXCEPT !.calls = d.calls + 1, !.rounds = d.rounds + 1,
                             !.step = d.step + 1]]
    /\ UNCHANGED <<loopVars, storeVars, chatVars, users, slack, auth>>

BothNext ==
    \/ BothOR_Enter
    \/ BothOR_Iteration
    \/ BothCL_Enter
    \/ BothCL_Iteration

SpecBoth == BothInit /\ [][BothNext]_vars

(***************************************************************************)
(* handleMessage / handleMention from the user's message to the reply,     *)
(* for concurrent invocations, each in a conversation and a thread of its  *)
(* own; slack holds what was posted to each thread                         *)
(***************************************************************************)
ThinkingText == "_Thinking..._"
GenericErrorText ==
    "Sorry, I encountered an error processing your message. Please try again."

\* What generateResponse can return.
Answers ==
    {AIResponse("Done.", ModelIdArg, 12, 7),
     AIResponse(ToolLoopMessage, ModelIdArg, 30, 9),
     AIResponse("", ModelIdArg, 5, 0)}

PostMessage(h, text) == [op |-> "postMessage", handler |-> h, text |-> text]
ChatDelete(h) == [op |-> "delete", handler |-> h, text |-> ThinkingText]
Say(h, text) == [op |-> "say", handler |-> h, text |-> text]

MessageAtStart == [pc |-> "start", outcome |-> "none", response |-> NoResult]

MessagesInit ==
    /\ LoopIdle
    /\ StoresIdle
    /\ handlers = [h \in HandlerIds |-> MessageAtStart]
    /\ users = [id \in UserIds |-> Alias_op]
    /\ slack = [h \in HandlerIds |-> <<>>]
    /\ auth = [pendingStates |-> {}, sessions |-> {}]

\* await addMessage({ conversationId, role: "user", content: text, ... })
HM_AddUserMessage(h) ==
    /\ handlers[h].pc = "start"
    /\ storedMessages' = AddMessage(storedMessages, UserMessageRow(h, "List models"))
    /\ handlers' = [handlers EXCEPT ![h].pc = "stored"]
    /\ UNCHANGED <<loopVars, storeVars, toolDefinitions, conversations, history,
                   users, slack, auth>>

\* The indicator is posted and generateResponse is called.
HM_PostIndicator(h) ==
    /\ handlers[h].pc = "stored"
    /\ slack' = [slack EXCEPT ![h] = Append(@, PostMessage(h, ThinkingText))]
    /\ handlers' = [handlers EXCEPT ![h].pc = "inferring"]
    /\ UNCHANGED <<loopVars, storeVars, chatVars, users, auth>>

\* generateResponse returns and the assistant message is added.
HM_ResponseReturns(h) ==
    /\ handlers[h].pc = "inferring"
    /\ \E answer \in Answers :
         /\ storedMessages' = AddMessage(storedMessages, AssistantMessageRow(h, answer))
         /\ handlers' = [handlers EXCEPT ![h] =
                            [pc |-> "persisted", outcome |-> "returned",
                             response |-> answer]]
    /\ UNCHANGED <<loopVars, storeVars, toolDefinitions, conversations, history,
                   users, slack, auth>>

\* if (typingMsg.ts) await client.chat.delete(...), in the try block
HM_DeleteIndicator(h) ==
    /\ handlers[h].pc = "persisted"
    /\ slack' = [slack EXCEPT ![h] = Append(@, ChatDelete(h))]
    /\ handlers' = [handlers EXCEPT ![h].pc = "deleted"]
    /\ UNCHANGED <<loopVars, storeVars, chatVars, users, auth>>

\* await say({ text: response.content, thread_ts: threadTs })
HM_SayAnswer(h) ==
    /\ handlers[h].pc = "deleted"
    /\ slack' = [slack EXCEPT ![h] = Append(@, Say(h, handlers[h].response.content))]
    /\ handlers' = [handlers EXCEPT ![h].pc = "done"]
    /\ UNCHANGED <<loopVars, storeVars, chatVars, users, auth>>

\* generateResponse throws into the inner catch.
HM_ResponseThrows(h) ==
    /\ handlers[h].pc = "inferring"
    /\ handlers' = [handlers EXCEPT ![h] =
                       [pc |-> "caught", outcome |-> "threw", response |-> NoResult]]
    /\ UNCHANGED <<loopVars, storeVars, chatVars, users, slack, auth>>

HM_DeleteOnErrorSkipped(h) ==
    /\ handlers[h].pc = "caught"
    /\ slack' = slack
    /\ handlers' = [handlers EXCEPT ![h].pc = "rethrown"]
    /\ UNCHANGED <<loopVars, storeVars, chatVars, users, auth>>
\* The inner catch: the indicator is deleted and the error thrown again.
HM_DeleteOnError(h) ==
    /\ handlers[h].pc = "caught"
    /\ slack' = [slack EXCEPT ![h] = Append(@, ChatDelete(h))]
    /\ handlers' = [handlers EXCEPT ![h].pc = "rethrown"]
    /\ UNCHANGED <<loopVars, storeVars, chatVars, users, auth>>

\* The outer catch: the generic message is said.
HM_SayError(h) ==
    /\ handlers[h].pc = "rethrown"
    /\ slack' = [slack EXCEPT ![h] = Append(@, Say(h, GenericErrorText))]
    /\ handlers' = [handlers EXCEPT ![h].pc = "done"]
    /\ UNCHANGED <<loopVars, storeVars, chatVars, users, auth>>

MessagesNext ==
    \E h \in HandlerIds :
        \/ HM_AddUserMessage(h)
        \/ HM_PostIndicator(h)
        \/ HM_ResponseReturns(h)
        \/ HM_DeleteIndicator(h)
        \/ HM_SayAnswer(h)
        \/ HM_ResponseThrows(h)
        \/ HM_DeleteOnError(h)
        \/ HM_SayError(h)

SpecMessages == MessagesInit /\ [][MessagesNext]_vars

(***************************************************************************)
(* OAuth login: /login, /callback and the cleanup of pendingStates.        *)
(* A state is a fresh nanoid, here the number of the login that issued it  *)
(***************************************************************************)
MaxLogins == 2           \* logins started
MaxMinutes == 6          \* minutes the clock runs

Minute == 60 * 1000
CleanupAge == 5 * 60 * 1000

NoParam == 0             \* c.req.query(...) is undefined
ForgedState == MaxLogins + 1     \* a state no login has issued

CallbackStates == {NoParam, ForgedState} \cup (1..MaxLogins)

PendingIds(pending) == {p.state : p \in pending}

AuthInit ==
    /\ LoopIdle
    /\ StoresIdle
    /\ handlers = {}
    /\ users = [id \in UserIds |-> Alias_op]
    /\ slack = <<>>
    /\ auth = [pendingStates |-> {}, sessions |-> <<>>, issued |-> 0, now |-> 0,
               verified |-> <<>>]

\* auth.get("/login")
Login ==
    /\ auth.issued < MaxLogins
    /\ LET state == auth.issued + 1
       IN  auth' = [auth EXCEPT
                       !.issued = state,
                       !.pendingStates = @ \cup {[state |-> state,
                                                  createdAt |-> auth.now]}]
    /\ lastCall' = [op |-> "login"]
    /\ UNCHANGED <<modelConfig, catalogCache, userPref, ctxPref, switchedTo>>
    /\ UNCHANGED <<loopVars, chatVars, handlers, users, slack>>

\* A minute passes.
Tick ==
    /\ auth.now < MaxMinutes * Minute
    /\ auth' = [auth EXCEPT !.now = @ + Minute]
    /\ lastCall' = [op |-> "tick"]
    /\ UNCHANGED <<modelConfig, catalogCache, userPref, ctxPref, switchedTo>>
    /\ UNCHANGED <<loopVars, chatVars, handlers, users, slack>>

\* The callback of setInterval.
Cleanup ==
    /\ LET fiveMinutesAgo == auth.now - CleanupAge
       IN  auth' = [auth EXCEPT !.pendingStates =
                       {p \in @ : ~(p.createdAt < fiveMinutesAgo)}]
    /\ lastCall' = [op |-> "cleanup"]
    /\ UNCHANGED <<modelConfig, catalogCache, userPref, ctxPref, switchedTo>>
    /\ UNCHANGED <<loopVars, chatVars, handlers, users, slack>>

\* What /callback answers before its first await, and whether the state was
\* verified and deleted.
VerifyStateWithoutDelete(pending, error, code, state) ==
    IF error THEN [redirect |-> "error", verified |-> FALSE, pending |-> pending]
    ELSE IF ~code \/ state = NoParam
    THEN [redirect |-> "missing_params", verified |-> FALSE, pending |-> pending]
    ELSE IF state \notin PendingIds(pending)
    THEN [redirect |-> "invalid_state", verified |-> FALSE, pending |-> pending]
    ELSE [redirect |-> "none", verified |-> TRUE, pending |-> pending]
\* auth.get("/callback") up to await exchangeCodeForTokens(code)
VerifyState(pending, error, code, state) ==
    IF error THEN [redirect |-> "error", verified |-> FALSE, pending |-> pending]
    ELSE IF ~code \/ state = NoParam
    THEN [redirect |-> "missing_params", verified |-> FALSE, pending |-> pending]
    ELSE IF state \notin PendingIds(pending)
    THEN [redirect |-> "invalid_state", verified |-> FALSE, pending |-> pending]
    ELSE [redirect |-> "none", verified |-> TRUE,
          pending |-> {p \in pending : p.state # state}]

Callback ==
    /\ \E error \in BOOLEAN, code \in BOOLEAN, state \in CallbackStates :
         LET out == VerifyState(auth.pendingStates, error, code, state)
         IN  /\ auth' = [auth EXCEPT
                            !.pendingStates = out.pending,
                            !.verified = IF out.verified THEN Append(@, state) ELSE @]
             /\ handlers' = IF out.verified THEN handlers \cup {state} ELSE handlers
             /\ lastCall' = [op |-> "callback", error |-> error, code |-> code,
                             state |-> state,
                             wasPending |-> state \in PendingIds(auth.pendingStates),
                             redirect |-> out.redirect, verified |-> out.verified,
                             sessionsBefore |-> Len(auth.sessions)]
    /\ UNCHANGED <<modelConfig, catalogCache, userPref, ctxPref, switchedTo>>
    /\ UNCHANGED <<loopVars, chatVars, users, slack>>

\* The rest of /callback for a verified state: the token exchange or
\* getUserInfo throws, the email is not allowed, or a session is created.
CallbackFinish ==
    /\ \E state \in handlers, end \in {"auth_failed", "unauthorized", "admin"} :
         /\ handlers' = handlers \ {state}
         /\ auth' = [auth EXCEPT !.sessions =
                        IF end = "admin" THEN Append(@, [state |-> state]) ELSE @]
         /\ lastCall' = [op |-> "callback finished", state |-> state,
                         redirect |-> end,
                         sessionsBefore |-> Len(auth.sessions)]
    /\ UNCHANGED <<modelConfig, catalogCache, userPref, ctxPref, switchedTo>>
    /\ UNCHANGED <<loopVars, chatVars, users, slack>>

AuthNext ==
    \/ Login
    \/ Tick
    \/ Cleanup
    \/ Callback
    \/ CallbackFinish

SpecAuth == AuthInit /\ [][AuthNext]_vars




(***************************************************************************)
(* Properties                                                              *)
(***************************************************************************)
\* The ids of the tool calls of a provider response, in the provider's order.
ResponseCallIds(resp) ==
    IF "tool_calls" \in DOMAIN resp
    THEN [i \in 1..Len(resp.tool_calls) |-> resp.tool_calls[i].id]
    ELSE IF "content" \in DOMAIN resp
    THEN BlockIds(ToolUses(resp.content))
    ELSE <<>>

RECURSIVE IdsOfRoles(_, _)
\* The ids carried by the turns of the given roles, in list order.
IdsOfRoles(list, roles) ==
    IF list = <<>> THEN <<>>
    ELSE (IF Head(list).role \in roles THEN TurnIds(Head(list)) ELSE <<>>)
         \o IdsOfRoles(Tail(list), roles)

RequestedIds == IdsOfRoles(messages, {"assistant"})
ResultIds == IdsOfRoles(messages, {"tool", "user"})

IsPrefix(a, b) == Len(a) <= Len(b) /\ SubSeq(b, 1, Len(a)) = a
LastN(a, n) == SubSeq(a, Len(a) - n + 1, Len(a))
NoDuplicates(a) == \A i, j \in 1..Len(a) : a[i] = a[j] => i = j

\* A tool round has just been completed and its turns are in the list.
RoundDone == pc = "send" /\ rounds > 0

\* The invocation threw out of tool execution (not out of an inference call).
ThrewInTools == pc = "threw" /\ request = NoRequest

\* C1: with a ToolContext and a provider that puts a tool call in every
\* response, either driver returns an AIResponse after exactly 3 tool-execution
\* rounds; a 4th round is never started, at most 4 inference calls are made,
\* no step is ever stuck, and nothing but a failed inference call throws.
C1_ThreeRoundsThenReturn ==
    /\ rounds <= 3
    /\ nInfer <= 4
    /\ ~ThrewInTools
    /\ (pc \notin {"done", "threw"} => ENABLED Next)
    /\ (pc = "done" /\ hasCtx /\ allToolCalls => rounds = 3 /\ result.model # "")

C1_Witness ==
    /\ pc = "done" /\ hasCtx /\ allToolCalls /\ rounds = 3
    /\ driver = "claude" /\ nInfer = 4

\* The 3-round cap was exceeded: three rounds were run and the provider still
\* asked for tools.
CapExceeded ==
    /\ pc = "done" /\ hasCtx /\ rounds = 3
    /\ Len(ResponseCallIds(response)) > 0

\* C2: when the cap is exceeded the returned content is the fixed fallback
\* message, in both drivers, together with the accumulated token totals.
C2_FixedFallbackMessage ==
    CapExceeded =>
        /\ result.content = ToolLoopMessage
        /\ result.inputTokens = reportedIn
        /\ result.outputTokens = reportedOut

\* C3: on every return path the token totals are the sums of what the 1..4
\* inference calls reported, and the running totals are never reset.
C3_TokensAdditive ==
    /\ inputTokens = reportedIn
    /\ outputTokens = reportedOut
    /\ (pc = "done" =>
            /\ nResponses \in 1..4
            /\ result.inputTokens = reportedIn
            /\ result.outputTokens = reportedOut)

C3_Witness ==
    /\ pc = "done" /\ nResponses = 4
    /\ result.inputTokens = 36 /\ result.outputTokens = 22

\* The plain text of a response, written out for the responses of this model
\* (at most two text blocks).
TextOfResponse(resp) ==
    IF "tool_calls" \in DOMAIN resp
    THEN (IF resp.content = Null THEN "" ELSE resp.content)
    ELSE LET texts == SelectSeq(resp.content, LAMBDA b : b.type = "text")
         IN  CASE Len(texts) = 0 -> ""
               [] Len(texts) = 1 -> texts[1].text
               [] OTHER -> texts[1].text \o texts[2].text

\* C4: with a ToolContext, tool calls in the first k responses (k in 0..2)
\* and none in the next one: that response's text and model id are returned
\* and exactly k+1 inference calls were made.
C4_FinalTextReturned ==
    (pc = "done" /\ hasCtx /\ rounds <= 2 /\ Len(ResponseCallIds(response)) = 0) =>
        /\ result.content = TextOfResponse(response)
        /\ result.model = response.model
        /\ nInfer = rounds + 1
        /\ nResponses = rounds + 1

C4_Witness ==
    /\ pc = "done" /\ hasCtx /\ rounds = 2 /\ nInfer = 3
    /\ driver = "claude" /\ result.content = "Let me check."

\* C5: the result ids in the message list are, in order and without
\* repetition, the ids the assistant turns asked for; when a round is done the
\* list holds exactly one result for every call id of the response just
\* processed and none for any other id.
C5_ResultsMatchCalls ==
    /\ driver \in Drivers => /\ IsPrefix(ResultIds, RequestedIds)
                             /\ NoDuplicates(ResultIds)
    /\ RoundDone =>
            /\ ResultIds = RequestedIds
            /\ Len(ResponseCallIds(response)) > 0
            /\ LastN(ResultIds, Len(ResponseCallIds(response))) = ResponseCallIds(response)

C5_Witness ==
    /\ RoundDone /\ rounds = 2 /\ driver = "openrouter"
    /\ Len(ResponseCallIds(response)) = 2
    /\ Len(ResultIds) >= 3

\* C6: native-messages turn shape.  When a round is done exactly two turns
\* have been appended for it: the assistant turn with the response's content
\* blocks unchanged, then one user turn with one tool_result block per
\* tool_use block, in order, carrying the call's id, the result's content and
\* its error flag; the next request carries the whole list.
C6_ClaudeTurnShape ==
    driver = "claude" =>
        /\ (pc \in {"send", "await"} => Len(messages) = 1 + 2 * rounds)
        /\ (pc \in {"check", "tools", "append"} /\ nResponses > 0 =>
                Len(messages) = 1 + 2 * (nResponses - 1))
        /\ (pc = "await" => request.messages = messages)
        /\ (RoundDone =>
                LET uses == ToolUses(response.content)
                    n == Len(messages)
                IN  /\ messages[n - 1] = [role |-> "assistant", blocks |-> response.content]
                    /\ messages[n].role = "user"
                    /\ Len(messages[n].blocks) = Len(uses)
                    /\ Len(roundLog) = Len(uses)
                    /\ \A i \in 1..Len(uses) :
                          messages[n].blocks[i] =
                              [type |-> "tool_result", tool_use_id |-> uses[i].id,
                               content |-> roundLog[i].content,
                               is_error |-> roundLog[i].isError])

C6_Witness ==
    /\ driver = "claude" /\ RoundDone
    /\ Len(messages[Len(messages)].blocks) = 2
    /\ messages[Len(messages)].blocks[1].is_error
    /\ ~messages[Len(messages)].blocks[2].is_error

\* C7: chat-completions turn shape.  In a round the assistant message (its
\* tool_calls and its content, null when the response had none) is appended
\* first, then one role "tool" message per processed call, in order, with that
\* call's id and result; the next request carries the whole list.
C7_OpenRouterTurnShape ==
    (driver = "openrouter" /\ rounds > 0) =>
        /\ (pc = "await" => request.messages = messages)
        /\ (pc \in {"tools", "send"} =>
                LET calls == response.tool_calls
                    k == IF pc = "send" THEN Len(calls) ELSE callIdx - 1
                    n == Len(messages)
                IN  /\ Len(roundLog) = k
                    /\ messages[n - k] = [role |-> "assistant", content |-> response.content,
                                          tool_calls |-> calls]
                    /\ \A i \in 1..k :
                          messages[n - k + i] =
                              [role |-> "tool", tool_call_id |-> calls[i].id,
                               content |-> roundLog[i].content])

C7_Witness ==
    /\ driver = "openrouter" /\ RoundDone
    /\ response.content = Null
    /\ Len(response.tool_calls) = 2
    /\ messages[Len(messages) - 2].role = "assistant"

\* C8: in the chat-completions driver a call whose arguments are not valid
\* JSON gets an error result for its id and its tool is not executed; the calls
\* before and after it are executed and get their own results, and the batch is
\* run to its end.
C8_MalformedJsonIsLocal ==
    (driver = "openrouter" /\ pc \in {"tools", "send"} /\ rounds > 0) =>
        /\ \A i \in 1..Len(roundLog) :
              LET call == response.tool_calls[i]
                  turn == messages[Len(messages) - Len(roundLog) + i]
              IN  /\ roundLog[i].id = call.id
                  /\ turn.tool_call_id = call.id
                  /\ roundLog[i].executed = (call.arguments \in ValidJson)
                  /\ (call.arguments \notin ValidJson =>
                          turn.content = ErrorJson("JSON Parse error: " \o call.arguments))
        /\ (pc = "send" => Len(roundLog) = Len(response.tool_calls))

C8_Witness ==
    /\ driver = "openrouter" /\ RoundDone
    /\ Len(roundLog) = 2
    /\ ~roundLog[1].executed /\ roundLog[2].executed
    /\ response.tool_calls[1].name \in ToolNames

\* An error-flagged ToolResult was produced in the current round.
ErrorInRound == \E i \in 1..Len(roundLog) : roundLog[i].executed /\ roundLog[i].isError

C10_ExecuteToolNeverThrows ==
    /\ pc # "threw"
    /\ pc = "returned" =>
          LET name == lastExec.name
              h == lastExec.handler
              o == lastExec.outcome
          IN  /\ ~o.threw
              /\ (name \notin ToolNames =>
                      o.isError /\ o.content = ErrorJson("Unknown tool: " \o name))
              /\ (name \in ToolNames /\ h.kind = "throw" =>
                      /\ o.isError
                      /\ (h.isErrorObject => o.content = ErrorJson(h.message)))
              /\ (name \in ToolNames /\ h.kind = "return" /\ onToolResult = "throws" =>
                      o.isError /\ o.content = ErrorJson(CallbackError))
              /\ (name \in ToolNames /\ h.kind = "return" /\ onToolResult # "throws" =>
                      o.content = h.content /\ o.isError = h.isError)

C10_Witness ==
    /\ pc = "returned"
    /\ lastExec.name = "openrouter_refresh_models"
    /\ lastExec.handler.kind = "throw" /\ lastExec.handler.isErrorObject
    /\ lastExec.outcome.isError
    /\ lastExec.outcome.content = "{ok:false,error:openrouter_refresh_models failed}"

\* The usage a provider response reports, as <<input, output>>.
ResponseUsage(resp) ==
    IF "tool_calls" \in DOMAIN resp
    THEN <<resp.usage.prompt_tokens, resp.usage.completion_tokens>>
    ELSE <<resp.usage.input_tokens, resp.usage.output_tokens>>

\* C11: without a ToolContext either driver makes exactly one inference call;
\* that request declares no tools and its system prompt has no tool suffix; no
\* tool is executed and no round is started even if the response asks for
\* tools; the response's plain text, its model id and that one call's usage
\* are returned.
C11_NoContextSingleCall ==
    ~hasCtx =>
        /\ nInfer <= 1 /\ rounds = 0
        /\ lastExec = NoExec /\ roundLog = <<>>
        /\ pc \in {"send", "await", "check", "done", "threw"}
        /\ (pc = "await" =>
                /\ ~request.tools
                /\ (driver = "claude" => request.system = DefaultSystemPrompt)
                /\ (driver = "openrouter" =>
                        request.messages[1] = [role |-> "system",
                                               content |-> DefaultSystemPrompt]))
        /\ (pc = "done" =>
                /\ nInfer = 1 /\ nResponses = 1
                /\ result.content = TextOfResponse(response)
                /\ result.model = response.model
                /\ result.inputTokens = ResponseUsage(response)[1]
                /\ result.outputTokens = ResponseUsage(response)[2])

C11_Witness ==
    /\ ~hasCtx /\ pc = "done" /\ driver = "openrouter"
    /\ Len(response.tool_calls) = 2
    /\ response.tool_calls[1].name \in ToolNames
    /\ result.content = "Done."

\* C12: with a ToolContext, when the response last received holds text next
\* to tool calls, that text is not what is returned: the invocation goes on
\* with tool execution, and if it returns with that response at hand it
\* returns the fixed fallback message.
C12_ToolCallsTakePrecedence ==
    (pc = "done" /\ hasCtx /\ Len(ResponseCallIds(response)) > 0
                /\ TextOfResponse(response) # "") =>
        /\ result.content # TextOfResponse(response)
        /\ result.content = ToolLoopMessage

\* C14: a failed inference call ends the invocation at once: the call is not
\* made again (there is never more than one request without a response), and
\* once the invocation has thrown nothing is returned and no further inference
\* call or tool execution can happen.
C14_ProviderErrorIsFinal ==
    /\ nInfer <= nResponses + 1
    /\ pc = "threw" =>
          /\ nInfer = nResponses + 1
          /\ request # NoRequest
          /\ result = NoResult
          /\ ~ENABLED Next

C14_Witness ==
    /\ pc = "threw" /\ driver = "openrouter"
    /\ nInfer = 3 /\ rounds = 2 /\ hasCtx

\* C16: when context.onToolResult is set, every executeTool call that returns
\* has invoked it: after a successful handler, and also after a handler
\* exception and for an unknown tool name.
C16_CallbackAfterEveryExecution ==
    (driver = "none" /\ pc = "returned" /\ onToolResult # "none") =>
        lastExec.outcome.notified

\* C17: the tool result a driver appends does not depend on the onToolResult
\* callback: it is the result the same call with the same handler outcome
\* gives when no callback is set.
C17_CallbackDoesNotAffectLoop ==
    (driver \in Drivers /\ lastExec # NoExec) =>
        LET ref == ExecuteTool(lastExec.name, lastExec.input, lastExec.handler, "none")
            n == Len(roundLog)
        IN  /\ lastExec.outcome.content = ref.content
            /\ lastExec.outcome.isError = ref.isError
            /\ (n > 0 /\ roundLog[n].executed =>
                    roundLog[n].content = ref.content /\ roundLog[n].isError = ref.isError)

\* The rows of model_config with the given alias (at most one: id is the key).
RowsOfAlias(alias) == {r \in modelConfig : r.id = alias}

\* C13: generateResponse for an alias that is not registered throws the
\* model-not-found error and for a registered, disabled alias the
\* model-disabled error, in both cases without having read the history or
\* called a provider; otherwise it calls the provider of exactly the row with
\* that alias, with that row's provider id.
C13_RouterFailsFast ==
    lastCall.op = "generateResponse" =>
        /\ (RowsOfAlias(lastCall.alias) = {} =>
                lastCall.threw = <<"Model \"", lastCall.alias, "\" not found">>)
        /\ \A r \in RowsOfAlias(lastCall.alias) :
              IF r.enabled
              THEN /\ lastCall.threw = NotThrown
                   /\ lastCall.historyRead
                   /\ lastCall.provider = r.provider
                   /\ lastCall.modelId = r.modelId
              ELSE lastCall.threw = <<"Model \"", r.displayName, "\" is disabled">>
        /\ (lastCall.threw # NotThrown =>
                /\ ~lastCall.historyRead
                /\ lastCall.provider = "none"
                /\ nInfer = 0 /\ lastExec = NoExec)

C13_Witness ==
    /\ lastCall.op = "generateResponse"
    /\ lastCall.alias = Alias_k2
    /\ lastCall.threw = <<"Model \"", Display_Kimi2, "\" is disabled">>
    /\ ~lastCall.historyRead

\* C15: every resolution reads the registry as it is now.  generateResponse
\* accepts an alias exactly when its row is enabled now and names the row's
\* present display name when it is not; the model switch_model ends with is the
\* row as it is now, accepted exactly when it is enabled now, with its present
\* display name in the result.
C15_ResolutionReadsCurrentConfig ==
    /\ lastCall.op = "generateResponse" =>
          \A r \in RowsOfAlias(lastCall.alias) :
              /\ (lastCall.threw = NotThrown) = r.enabled
              /\ (~r.enabled => lastCall.threw[2] = r.displayName)
    /\ (lastCall.op = "switch_model" /\ lastCall.model # NoModel) =>
          /\ lastCall.model \in modelConfig
          /\ lastCall.isError = ~lastCall.model.enabled
          /\ (lastCall.isError =>
                  lastCall.content.error[2] = lastCall.model.displayName)
          /\ (~lastCall.isError =>
                  lastCall.content.model.display_name = lastCall.model.displayName)

\* A model that was enabled and named Kimi K2 at start is rejected under its
\* new name.
C15_Witness ==
    /\ lastCall.op = "switch_model" /\ lastCall.isError
    /\ lastCall.model # NoModel
    /\ lastCall.model.id = Alias_k2
    /\ lastCall.content.error = <<"Model '", Display_Kimi2, "' is disabled">>

\* C18: a switch_model that succeeds has stored the resolved alias as the
\* user's preferred model and in context.user.preferredModel, and its result
\* is {ok: true, model: {id, display_name, provider}} of that model; from then
\* on the tool calls of the same context see that alias (list_models reports
\* it as current_model).
C18_SwitchPersistsAndUpdatesContext ==
    /\ (lastCall.op = "switch_model" /\ ~lastCall.isError) =>
          /\ userPref = lastCall.model.id
          /\ ctxPref = lastCall.model.id
          /\ lastCall.model \in modelConfig
          /\ lastCall.content = [ok |-> TRUE,
                                 model |-> [id |-> lastCall.model.id,
                                            display_name |-> lastCall.model.displayName,
                                            provider |-> lastCall.model.provider]]
    /\ (switchedTo # <<>> => userPref = switchedTo /\ ctxPref = switchedTo)
    /\ (lastCall.op = "list_models" /\ switchedTo # <<>> =>
            lastCall.content.current_model = switchedTo)

C18_Witness ==
    /\ lastCall.op = "list_models"
    /\ switchedTo = CatalogId_z_new
    /\ lastCall.content.current_model = CatalogId_z_new
    /\ userPref = CatalogId_z_new

\* The aliases of the registry in the order of getAvailableModels().
KnownAliasIds(table) ==
    LET models == SortRows(table)
    IN  [i \in 1..Len(models) |-> models[i].id]

\* C19: a switch_model that fails returns an error-flagged result and changes
\* neither the stored preferred model nor context.user.preferredModel; the
\* result lists every alias of the registry when no model was found and names
\* the model when it is disabled.
C19_FailedSwitchChangesNothing ==
    [][(lastCall'.op = "switch_model" /\ lastCall'.isError) =>
          /\ userPref' = userPref
          /\ ctxPref' = ctxPref
          /\ modelConfig' = modelConfig
          /\ IF Trim(ModelIdOf(lastCall'.input)) = <<>>
             THEN lastCall'.content = MissingModelField
             ELSE IF lastCall'.model = NoModel
             THEN /\ ~lastCall'.content.ok
                  /\ lastCall'.content.available_models = KnownAliasIds(modelConfig)
                  /\ Len(lastCall'.content.available_models) = Cardinality(modelConfig)
             ELSE /\ ~lastCall'.content.ok
                  /\ ~lastCall'.model.enabled
                  /\ lastCall'.content.error[2] = lastCall'.model.displayName
                  /\ lastCall'.content.error[3] = "' is disabled"]_vars

C19_Witness ==
    /\ lastCall.op = "switch_model" /\ lastCall.isError
    /\ lastCall.model = NoModel
    /\ lastCall.input = StringInput(Name_nope)
    /\ Len(lastCall.content.available_models) = 4
    /\ userPref = CatalogId_z_new /\ ctxPref = CatalogId_z_new

\* The trimmed name a switch_model call was made with.
NameOf(call) == Trim(ModelIdOf(call.input))

\* C20: the model switch_model ends with is an exact alias match when there
\* is one; else an exact provider-id match when there is one; else a row whose
\* alias matches regardless of case and punctuation when there is one; else a
\* row whose display name so matches; only when none of these exists is the
\* catalog consulted, and a row is added only then, for a catalog id that
\* equals the name up to case.
C20_ResolutionOrder ==
    [][(lastCall'.op = "switch_model" /\ NameOf(lastCall') # <<>>) =>
          LET name == NameOf(lastCall')
              model == lastCall'.model
              byAlias == {r \in modelConfig : r.id = name}
              byProviderId == {r \in modelConfig : r.modelId = name}
              byLooseAlias == {r \in modelConfig : Normalize(r.id) = Normalize(name)}
              byLooseName ==
                  {r \in modelConfig : Normalize(r.displayName) = Normalize(name)}
              registered == byAlias \cup byProviderId \cup byLooseAlias \cup byLooseName
          IN  /\ (byAlias # {} => model \in byAlias)
              /\ (byAlias = {} /\ byProviderId # {} => model \in byProviderId)
              /\ (byAlias = {} /\ byProviderId = {} /\ byLooseAlias # {} =>
                      model \in byLooseAlias)
              /\ (byAlias = {} /\ byProviderId = {} /\ byLooseAlias = {}
                                /\ byLooseName # {} => model \in byLooseName)
              /\ (registered # {} =>
                      modelConfig' = modelConfig /\ catalogCache' = catalogCache)
              /\ (registered = {} /\ model # NoModel =>
                      /\ modelConfig' = modelConfig \cup {model}
                      /\ model \notin modelConfig
                      /\ ToLowerCase(model.id) = ToLowerCase(name)
                      /\ \E i \in 1..Len(catalogCache'.models) :
                            catalogCache'.models[i].id = model.id)
              /\ (registered = {} /\ model = NoModel => modelConfig' = modelConfig)]_vars

\* "K2" is no alias and no provider id; it matches alias k2 up to case, and
\* also the display name K.2 of a row that getAvailableModels() lists earlier.
C20_Witness ==
    /\ lastCall.op = "switch_model"
    /\ lastCall.input = StringInput(Name_K2)
    /\ lastCall.model # NoModel
    /\ lastCall.model.id = Alias_k2
    /\ \E r \in modelConfig : r.id = Alias_M_K2 /\ r.displayName = Display_K_2
    /\ userPref = Alias_k2

(***************************************************************************)
(* The catalog cache                                                       *)
(***************************************************************************)
\* The file holds a snapshot with a date: it exists, is JSON, has a models
\* array and a fetchedAt string that is a date.
CachePresentAndParseable(file) ==
    /\ file.shape = "object"
    /\ "models" \in DOMAIN file
    /\ "fetchedAt" \in DOMAIN file
    /\ "iso" \in DOMAIN file.fetchedAt

\* The call asks for the cache and the file is a snapshot younger than the
\* age limit of the call.
CacheServable(file, options, now) ==
    /\ ~("refresh" \in DOMAIN options /\ options.refresh)
    /\ CachePresentAndParseable(file)
    /\ now - file.fetchedAt.iso
         < (IF "maxAgeMs" \in DOMAIN options THEN options.maxAgeMs ELSE DefaultMaxAgeMs)

ServedFromCache(c) ==
    /\ ~c.out.threw
    /\ c.out.source = "cache"
    /\ c.out.requests = 0
    /\ c.out.cache = Snapshot(c.before.fetchedAt, c.before.models)
    /\ catalogCache = c.before

RefreshedFromNetwork(c) ==
    /\ ~c.out.threw
    /\ c.out.source = "refresh"
    /\ c.out.requests = 1
    /\ c.out.cache = Snapshot(ToISOString(c.now), c.net.data)
    /\ catalogCache = CacheFile(ToISOString(c.now), c.net.data)

\* C21 as stated: getOpenRouterModels returns the cached snapshot without a
\* network request exactly when refresh is not requested and the cache file is
\* present, parseable and younger than maxAgeMs; in every other case it makes
\* one network request, overwrites the file with the new snapshot and returns
\* it with source "refresh".
C21_CacheElseRefreshed ==
    lastCall.op = "getOpenRouterModels" =>
        IF CacheServable(lastCall.before, lastCall.input, lastCall.now)
        THEN ServedFromCache(lastCall)
        ELSE RefreshedFromNetwork(lastCall)

\* C21 amended: getOpenRouterModels returns the cached snapshot without a
\* network request exactly when refresh is not requested and the cache file is
\* present, parseable and younger than maxAgeMs; in every other case it
\* attempts a refresh, which on success is one network request, the file
\* overwritten with the new snapshot and that snapshot returned with source
\* "refresh", and on failure is an error thrown after at most one request with
\* the file left as it was.
C21_CacheElseRefreshAttempted ==
    lastCall.op = "getOpenRouterModels" =>
        IF CacheServable(lastCall.before, lastCall.input, lastCall.now)
        THEN ServedFromCache(lastCall)
        ELSE IF lastCall.net.kind = "ok"
        THEN RefreshedFromNetwork(lastCall)
        ELSE /\ lastCall.out.threw
             /\ lastCall.out.requests <= 1
             /\ catalogCache = lastCall.before

\* The default limit at its boundary: a snapshot one millisecond younger than
\* 24 hours was served from the cache.
C21_Witness ==
    /\ lastCall.op = "getOpenRouterModels"
    /\ lastCall.input = NoOptions
    /\ CachePresentAndParseable(lastCall.before)
    /\ lastCall.now - lastCall.before.fetchedAt.iso = DefaultMaxAgeMs - 1
    /\ lastCall.out.source = "cache"

\* The file exists but is not a snapshot with a date: no JSON, no object, no
\* models array, no fetchedAt string, or a fetchedAt that is no date.
CacheCorrupt(file) ==
    /\ file.shape # "absent"
    /\ ~CachePresentAndParseable(file)

RefreshErrors == {ApiKeyMissingMessage, HttpFailureMessage(HttpFailure), MissingDataMessage}

\* C22: a corrupt cache file is a cache miss whatever the age limit: the call
\* never answers from the cache, the only errors it can throw are those of the
\* refresh, never one of reading the file, and the snapshot the network
\* delivers replaces the file and is returned.
C22_CorruptCacheIsMiss ==
    (lastCall.op = "getOpenRouterModels" /\ CacheCorrupt(lastCall.before)) =>
        /\ lastCall.out.source # "cache"
        /\ lastCall.out.threw => lastCall.out.error \in RefreshErrors
        /\ lastCall.out.threw <=> lastCall.net.kind # "ok"
        /\ lastCall.net.kind = "ok" => RefreshedFromNetwork(lastCall)

\* A file whose fetchedAt is no date was asked for with the cache accepted at
\* any age, and was replaced by the fetched snapshot.
C22_Witness ==
    /\ lastCall.op = "getOpenRouterModels"
    /\ lastCall.before = CacheFile(NotADate, TestCatalog)
    /\ lastCall.input = [refresh |-> FALSE, maxAgeMs |-> MaxSafeInteger]
    /\ lastCall.out.source = "refresh"
    /\ catalogCache = CacheFile(ToISOString(lastCall.now), RemoteCatalog)

CatalogOps == {"getOpenRouterModels", "openrouter_refresh_models",
               "openrouter_search_models"}
CatalogTools == {"openrouter_refresh_models", "openrouter_search_models"}
FailedAnswers == {NoApiKey, HttpFailure, MissingData}

\* C23: a refresh that fails for want of an API key, on a response that is
\* not ok or on a payload without a data array throws its error and leaves the
\* cache file as it was; under executeTool the error becomes an error-flagged
\* ToolResult carrying its message, and switch_model, which catches it
\* itself, finds only what the file already held.
C23_FailedRefreshLeavesCache ==
    /\ (lastCall.op \in CatalogOps /\ lastCall.out.source # "cache") =>
          /\ lastCall.net \in FailedAnswers <=> lastCall.out.threw
          /\ lastCall.out.threw =>
                /\ lastCall.out.error \in RefreshErrors
                /\ catalogCache = lastCall.before
    /\ (lastCall.op \in CatalogTools /\ lastCall.out.threw) =>
          /\ ~lastCall.result.threw
          /\ lastCall.result.isError
          /\ lastCall.result.content = ErrorJson(lastCall.out.error)
    /\ \A normalized \in {Name_Z_New, Name_nope}, now \in Clock :
         \A r1 \in FailedAnswers, r2 \in FailedAnswers :
            LET lookup == CatalogLookup(catalogCache, normalized, now, r1, r2)
                cached == ReadCache(catalogCache)
            IN  /\ lookup.cache = catalogCache
                /\ lookup.entry # NoEntry =>
                      /\ cached # NoSnapshot
                      /\ lookup.entry = CatalogFind(cached.models, normalized)

\* openrouter_refresh_models ran without an API key over a good cache file:
\* the result is the error and the file is the one there was.
C23_Witness ==
    /\ lastCall.op = "openrouter_refresh_models"
    /\ lastCall.net = NoApiKey
    /\ lastCall.before = CacheFile(ToISOString(0), TestCatalog)
    /\ lastCall.result.isError
    /\ lastCall.result.content = ErrorJson(ApiKeyMissingMessage)
    /\ catalogCache = lastCall.before

(***************************************************************************)
(* Catalog search                                                          *)
(***************************************************************************)
\* The search returned a result (its catalog call did not throw).
Searched(c) == c.op = "openrouter_search_models" /\ ~c.out.threw

SearchTerms(options) ==
    SplitWords(ToLowerCase(Trim(OptionOr(options, "query", <<>>))))

\* The entry matches the query: there is no query, or one of its words occurs
\* in the entry's id, name or description.
MatchesQuery(model, terms) ==
    \/ terms = <<>>
    \/ \E i \in 1..Len(terms) : Includes(Haystack(model), terms[i])

\* The sort in force: the one asked for, else recent when there is no query.
SortInForce(options) ==
    IF "sort" \in DOMAIN options THEN options.sort
    ELSE IF SearchTerms(options) = <<>> THEN "recent" ELSE "relevance"

\* a is at least as recent as b, an entry without a timestamp being older
\* than every entry with one.
AtLeastAsRecent(a, b) ==
    \/ b = <<>>
    \/ a # <<>> /\ a[1] >= b[1]

\* C24: under sort "recent" the results are matching entries of the catalog,
\* newest first with the entries without a timestamp last, and no matching
\* entry left out is newer than one returned; the catalog of the test
\* (timestamps 1000, 2000, 1500), fetched earlier and searched with limit 2,
\* gives the 2000 entry and then the 1500 entry, from the cache.
C24_RecentNewestFirst ==
    (Searched(lastCall) /\ SortInForce(lastCall.input) = "recent") =>
        LET models == lastCall.out.cache.models
            terms == SearchTerms(lastCall.input)
            found == lastCall.out.result.results
            matching == {i \in 1..Len(models) : MatchesQuery(models[i], terms)}
            Returned_(i) == \E k \in 1..Len(found) : found[k].id = models[i].id
        IN  /\ lastCall.out.result.total = Cardinality(matching)
            /\ \A k \in 1..Len(found) :
                  \E i \in matching :
                     /\ found[k].id = models[i].id
                     /\ found[k].created = GetModelCreated(models[i])
            /\ \A k \in 1..Len(found), l \in 1..Len(found) :
                  k < l => /\ found[k].id # found[l].id
                           /\ AtLeastAsRecent(found[k].created, found[l].created)
            /\ \A i \in matching :
                  ~Returned_(i) =>
                      \A k \in 1..Len(found) :
                          AtLeastAsRecent(found[k].created, GetModelCreated(models[i]))
            /\ (/\ models = TestCatalog
                /\ lastCall.input = [sort |-> "recent", limit |-> 2]
                /\ lastCall.out.source = "cache")
               => [k \in 1..Len(found) |-> found[k].id]
                    = <<TestCatalog[2].id, TestCatalog[3].id>>

\* The scenario of the test: the catalog was fetched by an earlier refresh and
\* the search with sort "recent" and limit 2 answered from the cache with the
\* 2000 entry and the 1500 entry.
C24_Witness ==
    /\ Searched(lastCall)
    /\ lastCall.input = [sort |-> "recent", limit |-> 2]
    /\ lastCall.before.shape = "object"
    /\ lastCall.before = CacheFile(ToISOString(DefaultMaxAgeMs - 1), TestCatalog)
    /\ lastCall.out.source = "cache"
    /\ lastCall.out.requests = 0
    /\ Len(lastCall.out.result.results) = 2
    /\ lastCall.out.result.results[1].created = <<2000>>
    /\ lastCall.out.result.results[2].created = <<1500>>

\* The limit in force: 5 when none is given, 1 below 1, 25 above 25.
LimitInForce(options) ==
    IF "limit" \notin DOMAIN options THEN 5
    ELSE IF options.limit < 1 THEN 1
    ELSE IF options.limit > 25 THEN 25
    ELSE options.limit

\* C25: a search returns as many results as there are matching entries, up to
\* the limit in force and never more: the limit given when it is within 1 to
\* 25, 1 when it is below, 25 when it is above, 5 when none is given.
C25_LimitClamped ==
    Searched(lastCall) =>
        LET found == Len(lastCall.out.result.results)
            limit == LimitInForce(lastCall.input)
            total == lastCall.out.result.total
        IN  /\ limit \in 1..25
            /\ found <= limit
            /\ found = IF total < limit THEN total ELSE limit

\* A limit of 100 over a catalog of 27 entries returned 25 of them.
C25_Witness ==
    /\ Searched(lastCall)
    /\ lastCall.input = [limit |-> 100]
    /\ lastCall.out.result.total = 27
    /\ Len(lastCall.out.result.results) = 25

(***************************************************************************)
(* The content of a converted message                                      *)
(***************************************************************************)
ImagesWithData(attachments) ==
    SelectSeq(attachments, LAMBDA a : a.type = "image" /\ HasData(a))
FilesWithData(attachments) ==
    SelectSeq(attachments, LAMBDA a : a.type = "text" /\ HasData(a))

\* The block is the image block of the attachment, in the provider's format.
IsImageBlockOf(block, attachment, provider) ==
    IF provider = "claude"
    THEN /\ block.type = "image"
         /\ block.source.data = attachment.data
    ELSE /\ block.type = "image_url"
         /\ block.image_url.url
              = "data:" \o attachment.mimeType \o ";base64," \o attachment.data

\* C26: the blocks of a converted message are the image blocks of its image
\* attachments in the order of the attachment list, then the text blocks of
\* its text attachments in that order, each starting with "[File: <filename>]",
\* then at most one more text block, which is the primary text whenever there
\* is one.
C26_ImagesFilesThenText ==
    (lastCall.op = "converted" /\ lastCall.content.kind = "blocks") =>
        LET blocks == lastCall.content.blocks
            images == ImagesWithData(lastCall.attachments)
            files == FilesWithData(lastCall.attachments)
            n == Len(images)
            m == Len(files)
        IN  /\ Len(blocks) \in {n + m, n + m + 1}
            /\ \A k \in 1..n : IsImageBlockOf(blocks[k], images[k], lastCall.provider)
            /\ \A k \in 1..m :
                  /\ blocks[n + k].type = "text"
                  /\ blocks[n + k].text
                       = "[File: " \o files[k].filename \o "]\n" \o files[k].data
            /\ Len(blocks) = n + m + 1 => blocks[n + m + 1].type = "text"
            /\ lastCall.text # "" =>
                  /\ Len(blocks) = n + m + 1
                  /\ blocks[n + m + 1] = TextBlock(lastCall.text)

\* A message with a primary text whose attachment list is a text file, an
\* image and another text file was converted.
C26_Witness ==
    /\ lastCall.op = "converted"
    /\ lastCall.text # ""
    /\ Len(lastCall.attachments) = 3
    /\ lastCall.attachments[1].type = "text"
    /\ Len(ImagesWithData(lastCall.attachments)) = 1
    /\ Len(FilesWithData(lastCall.attachments)) = 2
    /\ lastCall.attachments[1] # lastCall.attachments[3]
    /\ Len(lastCall.content.blocks) = 4

\* C27: a message without primary text but with attachments is converted to
\* blocks ending with the text block "Please analyze the attached content.",
\* and every message with a non-empty attachment list is converted to a
\* non-empty list of blocks.
C27_NeverEmptyTurn ==
    (lastCall.op = "converted" /\ Len(lastCall.attachments) > 0) =>
        /\ lastCall.content.kind = "blocks"
        /\ Len(lastCall.content.blocks) > 0
        /\ lastCall.text = "" =>
              lastCall.content.blocks[Len(lastCall.content.blocks)]
                 = TextBlock(AnalyzePrompt)

(***************************************************************************)
(* The tool schemas, the history and the conversation store                *)
(***************************************************************************)
\* C28: whatever has been executed, getClaudeTools and getOpenRouterTools
\* return what they returned at first, and the two lists hold the same tools
\* in the same order, with the same name, description and input schema.
C28_ToolSchemasStable ==
    LET claude == GetClaudeTools(toolDefinitions)
        openRouter == GetOpenRouterTools(toolDefinitions)
    IN  /\ claude = GetClaudeTools(ToolDefinitions)
        /\ openRouter = GetOpenRouterTools(ToolDefinitions)
        /\ Len(claude) = Len(openRouter)
        /\ {claude[i].name : i \in 1..Len(claude)} = ToolNames
        /\ \A i \in 1..Len(claude) :
              /\ openRouter[i].function.name = claude[i].name
              /\ openRouter[i].function.description = claude[i].description
              /\ openRouter[i].function.parameters = claude[i].input_schema

\* An invocation with a ToolContext has exported the tools, executed three
\* rounds of them and returned.
C28_Witness ==
    /\ hasCtx
    /\ pc = "done"
    /\ rounds = 3
    /\ lastExec # NoExec
    /\ Len(GetClaudeTools(toolDefinitions)) = 5

\* C29: the list handed to the driver stays the one user message read from
\* the store while the driver's own list grows; the store holds nothing new
\* until the driver has returned, and then at most one new row: the answer,
\* with the content, the model and the token totals of the AIResponse
\* returned.
C29_HistoryIsInputOnly ==
    /\ history = <<[role |-> "user", content |-> "List models"]>>
    /\ pc # "done" => storedMessages = <<UserMessageRow(1, "List models")>>
    /\ pc = "done" =>
          \/ storedMessages = <<UserMessageRow(1, "List models")>>
          \/ /\ Len(storedMessages) = 2
             /\ storedMessages[1] = UserMessageRow(1, "List models")
             /\ storedMessages[2].role = "assistant"
             /\ storedMessages[2].content = result.content
             /\ storedMessages[2].model = result.model
             /\ storedMessages[2].inputTokens = result.inputTokens
             /\ storedMessages[2].outputTokens = result.outputTokens

\* After two rounds of tools, with five turns on the driver's list, the answer
\* returned was stored.
C29_Witness ==
    /\ pc = "done"
    /\ rounds = 2
    /\ Len(messages) >= 5
    /\ Len(history) = 1
    /\ Len(storedMessages) = 2
    /\ storedMessages[2].inputTokens = result.inputTokens

ActiveOf(table, userId) ==
    {i \in 1..Len(table) : table[i].userId = userId /\ table[i].status = "active"}

\* C30: the handler of reset_conversation returns { ok: true } without an
\* error flag; right after it the acting user has no active conversation, the
\* table has the rows it had, those of the other users as they were and those
\* of the acting user changed in nothing but their status, and whatever thread
\* getOrCreateConversation is then asked for on behalf of that user, it
\* creates a new active conversation.
C30_ResetArchivesAll ==
    lastCall.op = "reset_conversation" =>
        /\ lastCall.content = [ok |-> TRUE]
        /\ ~lastCall.isError
        /\ ActiveOf(conversations, lastCall.userId) = {}
        /\ Len(conversations) = Len(lastCall.before)
        /\ \A i \in 1..Len(conversations) :
              IF lastCall.before[i].userId = lastCall.userId
              THEN /\ conversations[i].status = "archived"
                   /\ [conversations[i] EXCEPT !.status = lastCall.before[i].status]
                        = lastCall.before[i]
              ELSE conversations[i] = lastCall.before[i]
        /\ \A threadTs \in ThreadIds :
              LET out == GetOrCreateConversation(conversations,
                             ConversationParams(lastCall.userId, threadTs))
              IN  /\ out.created
                  /\ out.id = Len(conversations) + 1
                  /\ out.table[out.id].status = "active"
                  /\ out.table[out.id].userId = lastCall.userId

\* The acting user had two active conversations and the other user one when
\* reset_conversation ran.
C30_Witness ==
    /\ lastCall.op = "reset_conversation"
    /\ Cardinality(ActiveOf(lastCall.before, lastCall.userId)) = 2
    /\ \E other \in UserIds \ {lastCall.userId} :
          /\ ActiveOf(lastCall.before, other) # {}
          /\ ActiveOf(conversations, other) = ActiveOf(lastCall.before, other)

(***************************************************************************)
(* Consumption and ordering of tool calls                                  *)
(***************************************************************************)
\* C31: with a ToolContext no call id has two results in the message list,
\* results follow the order of the calls asked for, and when the invocation
\* has returned every tool call of the last response received has its result
\* in the list.
C31_EveryCallConsumedOnce ==
    /\ driver \in Drivers => /\ NoDuplicates(ResultIds)
                             /\ IsPrefix(ResultIds, RequestedIds)
    /\ (pc = "done" /\ hasCtx) =>
          \A i \in 1..Len(ResponseCallIds(response)) :
              \E j \in 1..Len(ResultIds) : ResultIds[j] = ResponseCallIds(response)[i]


\* C32: inference calls and tool executions never overlap and follow one
\* another in order.  At most one inference call is outstanding and none while
\* a batch is being executed; during a batch the calls executed so far are the
\* first callIdx - 1 calls of the response, in the provider's order; and every
\* request carries a message list in which each call asked for has its result.
C32_StrictlySequential ==
    /\ nInfer - nResponses \in {0, 1}
    /\ pc = "await" => request # NoRequest
    /\ request # NoRequest => pc \in {"await", "threw"}
    /\ pc = "await" =>
          /\ nInfer = nResponses + 1
          /\ IdsOfRoles(request.messages, {"tool", "user"})
               = IdsOfRoles(request.messages, {"assistant"})
    /\ pc \in {"tools", "append"} =>
          /\ nInfer = nResponses
          /\ Len(roundLog) = callIdx - 1
          /\ callIdx <= Len(ResponseCallIds(response)) + 1
          /\ \A i \in 1..Len(roundLog) :
                roundLog[i].id = ResponseCallIds(response)[i]
    /\ pc = "append" => Len(roundLog) = Len(ResponseCallIds(response))
    /\ RoundDone => Len(roundLog) = Len(ResponseCallIds(response))

\* In the second round of generateOpenRouterResponse the first of two calls has
\* its result and the second is about to be executed.
C32_Witness ==
    /\ driver = "openrouter"
    /\ pc = "tools"
    /\ rounds = 2
    /\ Len(response.tool_calls) = 2
    /\ callIdx = 2
    /\ Len(roundLog) = 1
    /\ roundLog[1].id = response.tool_calls[1].id


(***************************************************************************)
(* Concurrent invocations                                                  *)
(***************************************************************************)
\* The snapshots a cache file of the start holds when it is a complete one.
SnapshotsAtStart == {ReadCache(file) : file \in InitialCacheFiles} \ {NoSnapshot}

SnapshotsWritten == {handlers[h].wrote : h \in DOMAIN handlers} \ {NoSnapshot}

\* C33: with invocations reading and refreshing the cache file side by side,
\* what readCache gave an invocation is nothing (a miss) or a complete
\* snapshot, the one of the start or one written by a refresh; a snapshot
\* returned as cached is the one read; and once a refresh has written, the
\* file holds the snapshot of the invocation that wrote last, also when all
\* invocations have finished.
C33_ReadsCompleteLastWriterWins ==
    /\ \A h \in DOMAIN handlers :
          /\ handlers[h].read \in {NoSnapshot} \cup SnapshotsAtStart \cup SnapshotsWritten
          /\ handlers[h].source = "cache" =>
                /\ handlers[h].read # NoSnapshot
                /\ handlers[h].returned = handlers[h].read
    /\ SnapshotsWritten # {} =>
          /\ lastCall.op = "writeCache"
          /\ lastCall.cache = handlers[lastCall.invocation].wrote
          /\ catalogCache = CacheFile(lastCall.cache.fetchedAt, lastCall.cache.models)
          /\ ReadCache(catalogCache) = lastCall.cache

\* Three invocations have finished: two refreshes wrote different snapshots,
\* the file holds the one written last, and one invocation was served from
\* the cache the snapshot another had written.
C33_Witness ==
    /\ \A h \in DOMAIN handlers : handlers[h].pc = "done"
    /\ Cardinality(SnapshotsWritten) = 2
    /\ \E h, g \in DOMAIN handlers :
          /\ h # g
          /\ handlers[h].source = "cache"
          /\ handlers[h].returned = handlers[g].wrote
    /\ lastCall.op = "writeCache"
    /\ ReadCache(catalogCache) = lastCall.cache


\* C34: no step changes the position or the ToolContext of more than one
\* invocation; a switch_model of one invocation sets its own
\* context.user.preferredModel and leaves the contexts of all the others as
\* they were, those of the same user included.
C34_ContextNotShared ==
    [][\A h \in HandlerIds :
          /\ handlers'[h] # handlers[h] =>
                \A g \in HandlerIds \ {h} : handlers'[g] = handlers[g]
          /\ (lastCall'.op = "switch_model" /\ lastCall'.invocation = h) =>
                /\ handlers'[h].user.preferredModel = lastCall'.model
                /\ handlers'[h].user.id = handlers[h].user.id
                /\ \A g \in HandlerIds \ {h} : handlers'[g] = handlers[g]]_vars

\* Two invocations for the same user are running their tools; one has just
\* switched and the other's context still holds the model it started with.
C34_Witness ==
    /\ lastCall.op = "switch_model"
    /\ \E g \in HandlerIds \ {lastCall.invocation} :
          /\ handlers[g].pc = "tools"
          /\ handlers[g].user.id = handlers[lastCall.invocation].user.id
          /\ handlers[g].user.preferredModel # lastCall.model
          /\ handlers[lastCall.invocation].user.preferredModel = lastCall.model
          /\ users[handlers[g].user.id] = lastCall.model


\* C38: whenever list_models runs, the current_model it reports, which is
\* context.user.preferredModel, is the preferred model persisted for the
\* acting user at that moment.
C38_ContextMatchesPersisted ==
    lastCall.op = "list_models" => lastCall.current_model = lastCall.persisted


\* C35: when both drivers have returned on the same sequence of responses,
\* they have made the same number of inference calls, run the same number of
\* tool rounds and returned the same kind of result.
C35_DriversAgree ==
    (handlers.openrouter.pc = "done" /\ handlers.claude.pc = "done") =>
        /\ handlers.openrouter.calls = handlers.claude.calls
        /\ handlers.openrouter.rounds = handlers.claude.rounds
        /\ handlers.openrouter.returned = handlers.claude.returned


\* C36: a switch_model that has written the users table goes on to set the
\* context and return, and is never cut short by a failure of its invocation;
\* an invocation fails only between tool executions, and the failing step
\* leaves the users table, the context and the record of the switch as they
\* were; the table changes only by a `use` command or by the updateUserModel
\* of a switch_model.
C36_SwitchNeverRolledBack ==
    [][/\ \A h \in HandlerIds :
             /\ handlers[h].pc = "switching" =>
                   \/ handlers'[h] = handlers[h]
                   \/ /\ handlers'[h].pc = "tools"
                      /\ handlers'[h].user.preferredModel = handlers[h].model.id
                      /\ handlers'[h].switched = <<handlers[h].model.id>>
             /\ (handlers'[h].pc = "threw" /\ handlers[h].pc # "threw") =>
                   /\ handlers[h].pc = "tools"
                   /\ users' = users
                   /\ handlers'[h].user = handlers[h].user
                   /\ handlers'[h].switched = handlers[h].switched
       /\ users' # users =>
             \/ handlers' = handlers
             \/ \E h \in HandlerIds :
                   /\ handlers[h].pc = "tools"
                   /\ handlers'[h].pc = "switching"
                   /\ users' = UpdateUserModel(users, handlers[h].user.id,
                                               handlers'[h].model.id)]_vars

\* An invocation switched to k2 in an earlier round and then failed in an
\* inference call: the persisted preferred model and the context's are k2.
C36_Witness ==
    /\ lastCall.op = "inference failed"
    /\ LET d == handlers[lastCall.invocation]
       IN  /\ d.pc = "threw"
           /\ d.switched = <<Alias_k2>>
           /\ d.user.preferredModel = Alias_k2
           /\ users[d.user.id] = Alias_k2


(***************************************************************************)
(* The message handler                                                     *)
(***************************************************************************)
\* What invocation h has posted, deleted and said, in order.
EventsOf(h) == slack[h]
\* The rows of the conversation of invocation h, in order.
RowsOf(h) == SelectSeq(storedMessages, LAMBDA row : row.conversationId = h)

\* C37: from the moment the indicator is up and inference has started the
\* conversation holds the user's message, first and once.  When
\* generateResponse threw, the conversation never gets an assistant message
\* and the invocation ends having posted the indicator, deleted it and said
\* the generic error message once.  When it returned, the conversation holds
\* one assistant message, the answer, and the invocation ends having posted
\* the indicator, deleted it and then said the answer.
C37_MessageHandlerOrder ==
    \A h \in HandlerIds :
        LET d == handlers[h]
            events == EventsOf(h)
            rows == RowsOf(h)
            onError == <<PostMessage(h, ThinkingText), ChatDelete(h),
                         Say(h, GenericErrorText)>>
            onAnswer == <<PostMessage(h, ThinkingText), ChatDelete(h),
                          Say(h, d.response.content)>>
        IN  /\ d.pc = "start" => rows = <<>> /\ events = <<>>
            /\ d.pc = "stored" => events = <<>>
            /\ d.pc # "start" =>
                  /\ Len(rows) >= 1
                  /\ rows[1] = UserMessageRow(h, "List models")
            /\ d.pc = "inferring" =>
                  /\ Len(rows) = 1
                  /\ events = <<PostMessage(h, ThinkingText)>>
            /\ d.outcome = "threw" =>
                  /\ Len(rows) = 1
                  /\ IsPrefix(events, onError)
                  /\ d.pc = "done" => events = onError
            /\ d.outcome = "returned" =>
                  /\ rows = <<UserMessageRow(h, "List models"),
                              AssistantMessageRow(h, d.response)>>
                  /\ IsPrefix(events, onAnswer)
                  /\ d.pc = "done" => events = onAnswer

\* One invocation has ended after a throw and another after an answer.
C37_Witness ==
    \E h, g \in HandlerIds :
        /\ handlers[h].pc = "done" /\ handlers[h].outcome = "threw"
        /\ handlers[g].pc = "done" /\ handlers[g].outcome = "returned"
        /\ Len(EventsOf(h)) = 3 /\ EventsOf(h)[3].text = GenericErrorText
        /\ Len(EventsOf(g)) = 3 /\ EventsOf(g)[3].text = "Done."
        /\ Len(RowsOf(h)) = 1 /\ Len(RowsOf(g)) = 2


SameKey(a, b) ==
    /\ a.userId = b.userId
    /\ a.channelId = b.channelId
    /\ a.threadTs = b.threadTs

\* C39: whatever getOrCreateConversation and resetUserConversation calls have
\* run, no two active rows have the same user, channel and thread, and the row
\* getOrCreateConversation has just returned is an active row of the key it
\* was asked for.
C39_OneActivePerKey ==
    /\ \A i, j \in 1..Len(conversations) :
          (/\ conversations[i].status = "active"
           /\ conversations[j].status = "active"
           /\ SameKey(conversations[i], conversations[j])) => i = j
    /\ lastCall.op = "getOrCreateConversation" =>
          /\ lastCall.id \in 1..Len(conversations)
          /\ conversations[lastCall.id].status = "active"
          /\ SameKey(conversations[lastCall.id], lastCall.params)

\* After a reset the conversation of a key was created anew, and a later call
\* for that key has returned the new row, not the archived one.
C39_Witness ==
    /\ lastCall.op = "getOrCreateConversation"
    /\ ~lastCall.created
    /\ \E i \in 1..Len(conversations) :
          /\ i < lastCall.id
          /\ conversations[i].status = "archived"
          /\ SameKey(conversations[i], conversations[lastCall.id])


(***************************************************************************)
(* OAuth states                                                            *)
(***************************************************************************)
\* No state was verified twice, every session comes from a verified state and
\* no state has two; a verified state is pending no more.
AcceptedAtMostOnce ==
    /\ NoDuplicates(auth.verified)
    /\ NoDuplicates(auth.sessions)
    /\ \A i \in 1..Len(auth.sessions) :
          \E j \in 1..Len(auth.verified) : auth.verified[j] = auth.sessions[i].state
    /\ \A j \in 1..Len(auth.verified) :
          /\ auth.verified[j] \in 1..auth.issued
          /\ auth.verified[j] \notin PendingIds(auth.pendingStates)
    /\ lastCall.op = "callback" =>
          /\ lastCall.verified => lastCall.wasPending
          /\ Len(auth.sessions) = lastCall.sessionsBefore
    /\ (lastCall.op = "callback finished" /\ lastCall.redirect # "admin") =>
          /\ Len(auth.sessions) = lastCall.sessionsBefore
          /\ lastCall.state \notin PendingIds(auth.pendingStates)

\* C40 as stated: a callback with a state that is not pending (never issued,
\* used before or cleaned up) is answered with invalid_state.
C40_StateAcceptedOnce ==
    /\ AcceptedAtMostOnce
    /\ (lastCall.op = "callback" /\ lastCall.state # NoParam /\ ~lastCall.wasPending) =>
          lastCall.redirect = "invalid_state"

\* C40, amended: the answer is invalid_state when the callback also carries a
\* code and no error parameter; with an error parameter or without a code it
\* is turned away before the state is looked at, and the pending states stay
\* as they were.  In no such case is the state verified or a session created.
C40_StateAcceptedOnceWellFormed ==
    /\ AcceptedAtMostOnce
    /\ (lastCall.op = "callback" /\ lastCall.state # NoParam /\ ~lastCall.wasPending) =>
          /\ ~lastCall.verified
          /\ lastCall.redirect =
                IF lastCall.error THEN "error"
                ELSE IF ~lastCall.code THEN "missing_params"
                ELSE "invalid_state"
    /\ (lastCall.op = "callback" /\ (lastCall.error \/ ~lastCall.code)) =>
          ~lastCall.verified

\* A state was used by a callback whose token exchange failed, and a second
\* callback with the same state has been answered invalid_state; another
\* state had been removed by the cleanup.
C40_Witness ==
    /\ lastCall.op = "callback"
    /\ lastCall.redirect = "invalid_state"
    /\ \E j \in 1..Len(auth.verified) : auth.verified[j] = lastCall.state
    /\ auth.sessions = <<>>
    /\ handlers = {}
    /\ auth.issued = 2
    /\ Len(auth.verified) = 1
    /\ auth.pendingStates = {}
====
